---- MODULE Spec2Model ----
(***************************************************************************)
(* Model of the rushTrade CLOB backend: order submission and matching      *)
(* (clob/service.py, clob/matching.py), cancellation, and the settlement   *)
(* tasks (tasks/settlement_tasks.py), running as concurrent units of work  *)
(* against one transactional store (database/connection.py).               *)
(*                                                                         *)
(* The store is PostgreSQL at its default isolation level (READ COMMITTED):*)
(* every statement reads the rows committed at the time it runs, a         *)
(* transaction's own writes become visible to the others at its commit,    *)
(* and a unique index makes a conflicting INSERT wait for the holder of    *)
(* the uncommitted row.  `orders` and `fills` are the committed tables;    *)
(* what a session has read or staged lives in loc[p].                      *)
(***************************************************************************)
EXTENDS Integers, Sequences, FiniteSets, TLC

\* ------------------------------------------------------------------------
\* Bounds of the model
\* ------------------------------------------------------------------------
MaxOrders == 2      \* order ids handed out in Spec, SpecHash and SpecSettle
MaxRaceOrders == 3  \* order ids handed out in SpecRace
MaxAmount == 2      \* largest maker_amount / taker_amount of a payload
MaxTx == 2          \* transaction references the chain executor hands out
MaxBookOrders == 3  \* order ids handed out in SpecBook
MaxDeepOrders == 4  \* order ids handed out in SpecDeep
MaxNow == 2         \* ticks of the clock
MaxScanOrders == 3  \* resting rows of a book of SpecScan

\* ------------------------------------------------------------------------
\* Program constants
\* ------------------------------------------------------------------------
DecimalPrec == 28          \* decimal.getcontext().prec used by Decimal
PROTOCOL_FEE_BPS == 50     \* match_new_order(protocol_fee_bps=50)
SETTLE_BATCH_LIMIT == 100  \* select(Fill)...limit(100)
DEFAULT_FEE_RATE_BPS == 0  \* OrderCreate.fee_rate_bps = Field(0, ...)
PRICE_PLACES == 6          \* PRICE_PRECISION = Decimal("0.000001")
DEFAULT_DEPTH == 10        \* get_orderbook_snapshot(depth=10)

\* the units of work that run concurrently (request handlers, Celery tasks)
Procs == {"w1", "w2"}

ZeroAddress == "0x0"
Makers == {"a1"}
Addresses == {"a1", "a2"}
Conditions == {"c1"}
Tokens == {1}
Sides == {"BUY", "SELL"}
Amounts == 1 .. MaxAmount
RAISES == "raises"

OPEN == "OPEN"
PARTIAL == "PARTIAL"
FILLED == "FILLED"
CANCELLED == "CANCELLED"
EXPIRED == "EXPIRED"
PENDING == "PENDING"
SETTLED == "SETTLED"
FAILED == "FAILED"

OrderStatus == {OPEN, PARTIAL, FILLED, CANCELLED, EXPIRED}
FillStatus == {PENDING, SETTLED, FAILED}

\* expiration: "Unix timestamp; 0 means no expiry"
NO_EXPIRY == 0

\* OrderCreate: the fields of a request body that the model carries.
OrderCreateOf(conditions, amounts, rates) ==
    [condition_id : conditions, token_id : Tokens, maker_address : Makers,
     maker_amount : amounts, taker_amount : amounts, side : Sides,
     fee_rate_bps : rates, signer : {ZeroAddress}, expiration : {NO_EXPIRY}]

\* the same request bodies with the expiration timestamps of `expirations`
Expiring(payloads, expirations) ==
    {[pl EXCEPT !.expiration = e] : pl \in payloads, e \in expirations}

\* the request bodies of the general specifications: one market, small
\* amounts, fee_rate_bps left at its default
OrderCreate == OrderCreateOf(Conditions, Amounts, {DEFAULT_FEE_RATE_BPS})

Null == [op |-> "none"]

\* ------------------------------------------------------------------------
\* Generic helpers
\* ------------------------------------------------------------------------
Min(a, b) == IF a <= b THEN a ELSE b

RECURSIVE SumSeq(_)
SumSeq(s) == IF s = <<>> THEN 0 ELSE Head(s) + SumSeq(Tail(s))

\* ascending sequence of a finite set of integers (ORDER BY id)
SetToSeq(S) ==
    [i \in 1 .. Cardinality(S) |->
        CHOOSE x \in S : Cardinality({y \in S : y < x}) = i - 1]

Range(s) == {s[i] : i \in DOMAIN s}

\* ------------------------------------------------------------------------
\* decimal.Decimal with the default context (prec = 28, ROUND_HALF_EVEN).
\* A non-negative Decimal is [coef |-> digits, most significant first,
\* exp |-> power of ten of the last digit]; zero is coef = <<0>>.
\* ------------------------------------------------------------------------
RECURSIVE IntDigits(_)
IntDigits(n) == IF n < 10 THEN <<n>> ELSE Append(IntDigits(n \div 10), n % 10)

RECURSIVE DigitsToInt(_)
DigitsToInt(s) ==
    IF s = <<>> THEN 0
    ELSE 10 * DigitsToInt(SubSeq(s, 1, Len(s) - 1)) + s[Len(s)]

RECURSIVE IncrDigits(_)
\* digits of (number + 1); one digit longer when every digit is 9
IncrDigits(s) ==
    IF s = <<>> THEN <<1>>
    ELSE IF s[Len(s)] < 9 THEN [s EXCEPT ![Len(s)] = @ + 1]
    ELSE Append(IncrDigits(SubSeq(s, 1, Len(s) - 1)), 0)

\* keep the coefficient within the context precision after a round-up carry
FitPrec(coef, exp) ==
    IF Len(coef) > DecimalPrec
    THEN [coef |-> SubSeq(coef, 1, DecimalPrec), exp |-> exp + (Len(coef) - DecimalPrec)]
    ELSE [coef |-> coef, exp |-> exp]

\* context rounding (ROUND_HALF_EVEN) of an exact coefficient to prec digits
DecRound(coef, exp) ==
    IF Len(coef) <= DecimalPrec THEN [coef |-> coef, exp |-> exp]
    ELSE LET kept == SubSeq(coef, 1, DecimalPrec)
             rest == SubSeq(coef, DecimalPrec + 1, Len(coef))
             tailZero == \A i \in 2 .. Len(rest) : rest[i] = 0
             up == \/ rest[1] > 5
                   \/ rest[1] = 5 /\ ~tailZero
                   \/ rest[1] = 5 /\ tailZero /\ kept[DecimalPrec] % 2 = 1
             e == exp + Len(rest)
         IN IF up THEN FitPrec(IncrDigits(kept), e) ELSE [coef |-> kept, exp |-> e]

RECURSIVE DivLoop(_, _, _, _)
\* long division: sig = significant digits so far, r = remainder, b = divisor
DivLoop(sig, r, exp, b) ==
    IF r = 0 THEN [coef |-> sig, exp |-> exp]
    ELSE IF Len(sig) = DecimalPrec
    THEN IF 2 * r > b \/ (2 * r = b /\ sig[DecimalPrec] % 2 = 1)
         THEN FitPrec(IncrDigits(sig), exp)
         ELSE [coef |-> sig, exp |-> exp]
    ELSE LET d == (10 * r) \div b
             r2 == (10 * r) % b
         IN DivLoop(IF sig = <<>> /\ d = 0 THEN <<>> ELSE Append(sig, d), r2, exp - 1, b)

\* Decimal(a) / Decimal(b), for a >= 0 and b > 0
DecDiv(a, b) ==
    IF a = 0 THEN [coef |-> <<0>>, exp |-> 0]
    ELSE LET q == a \div b
         IN DivLoop(IF q = 0 THEN <<>> ELSE IntDigits(q), a % b, 0, b)

RECURSIVE MulDigits(_, _, _)
\* digits of (number * n + carry), least significant digit processed first
MulDigits(s, n, carry) ==
    IF s = <<>> THEN (IF carry = 0 THEN <<>> ELSE IntDigits(carry))
    ELSE LET v == s[Len(s)] * n + carry
         IN Append(MulDigits(SubSeq(s, 1, Len(s) - 1), n, v \div 10), v % 10)

\* Decimal(n) * d, for an integer n >= 0
DecMulInt(n, d) ==
    IF n = 0 \/ d.coef = <<0>> THEN [coef |-> <<0>>, exp |-> 0]
    ELSE DecRound(MulDigits(d.coef, n, 0), d.exp)

RECURSIVE Pow10(_)
Pow10(k) == IF k = 0 THEN 1 ELSE 10 * Pow10(k - 1)

\* int(d.to_integral_value(ROUND_DOWN))
DecFloor(d) ==
    IF d.exp >= 0 THEN DigitsToInt(d.coef) * Pow10(d.exp)
    ELSE IF 0 - d.exp >= Len(d.coef) THEN 0
    ELSE DigitsToInt(SubSeq(d.coef, 1, Len(d.coef) + d.exp))

DecIsZero(d) == d.coef = <<0>>

RECURSIVE Zeros(_)
Zeros(k) == IF k <= 0 THEN <<>> ELSE <<0>> \o Zeros(k - 1)

\* d.quantize(Decimal("0.000001")) for d >= 0, ROUND_HALF_EVEN: the number of
\* millionths, which is the coefficient of the result (its exponent is -6)
DecQuantize(d) ==
    IF d.exp >= 0 - PRICE_PLACES
    THEN DigitsToInt(d.coef) * Pow10(d.exp + PRICE_PLACES)
    ELSE LET k == (0 - PRICE_PLACES) - d.exp
             coef == Zeros(k + 1 - Len(d.coef)) \o d.coef
             kept == SubSeq(coef, 1, Len(coef) - k)
             rest == SubSeq(coef, Len(coef) - k + 1, Len(coef))
             tailZero == \A i \in 2 .. Len(rest) : rest[i] = 0
             up == \/ rest[1] > 5
                   \/ rest[1] = 5 /\ ~tailZero
                   \/ rest[1] = 5 /\ tailZero /\ kept[Len(kept)] % 2 = 1
         IN DigitsToInt(kept) + (IF up THEN 1 ELSE 0)

RECURSIVE DigitsLess(_, _, _)
\* lexicographic comparison of two digit strings, the shorter padded with 0
DigitsLess(x, y, i) ==
    IF i > Len(x) /\ i > Len(y) THEN FALSE
    ELSE LET dx == IF i <= Len(x) THEN x[i] ELSE 0
             dy == IF i <= Len(y) THEN y[i] ELSE 0
         IN IF dx # dy THEN dx < dy ELSE DigitsLess(x, y, i + 1)

\* x < y for two non-negative Decimals
DecLess(x, y) ==
    IF DecIsZero(y) THEN FALSE
    ELSE IF DecIsZero(x) THEN TRUE
    ELSE LET ax == Len(x.coef) + x.exp
             ay == Len(y.coef) + y.exp
         IN IF ax # ay THEN ax < ay ELSE DigitsLess(x.coef, y.coef, 1)

\* ------------------------------------------------------------------------
\* Price / quantity model (clob/matching.py)
\* ------------------------------------------------------------------------
\* Decimal(a) / Decimal(b) for the amounts an order can carry, computed once
Quotients ==
    [a \in 0 .. MaxAmount |-> [b \in 1 .. MaxAmount |-> DecDiv(a, b)]]

\* int((Decimal(n) * (Decimal(a) / Decimal(b))).to_integral_value(ROUND_DOWN)),
\* computed once
Products ==
    [n \in 0 .. MaxAmount |->
        [a \in 0 .. MaxAmount |->
            [b \in 1 .. MaxAmount |-> DecFloor(DecMulInt(n, Quotients[a][b]))]]]

\* Decimal(a) / Decimal(b), read from the table where it has the entry
Quotient(a, b) ==
    IF a \in 0 .. MaxAmount /\ b \in 1 .. MaxAmount THEN Quotients[a][b]
    ELSE DecDiv(a, b)

\* int((Decimal(n) * (Decimal(a) / Decimal(b))).to_integral_value(ROUND_DOWN))
Product(n, a, b) ==
    IF n \in 0 .. MaxAmount /\ a \in 0 .. MaxAmount /\ b \in 1 .. MaxAmount
    THEN Products[n][a][b]
    ELSE DecFloor(DecMulInt(n, DecDiv(a, b)))

\* _buy_price: Decimal(maker_amount) / Decimal(taker_amount)
BuyPrice(o) == Quotient(o.maker_amount, o.taker_amount)

\* _sell_price: Decimal(taker_amount) / Decimal(maker_amount)
SellPrice(o) == Quotient(o.taker_amount, o.maker_amount)

\* the division raises (DivisionByZero / InvalidOperation)
BuyPriceRaises(o) == o.taker_amount = 0
SellPriceRaises(o) == o.maker_amount = 0

\* _remaining_tokens
RemainingTokens(o) ==
    IF o.side = "BUY" THEN o.taker_amount - o.filled_amount
    ELSE o.maker_amount - o.filled_amount

\* the quantity remaining(order) is measured against
Capacity(o) == IF o.side = "BUY" THEN o.taker_amount ELSE o.maker_amount

\* ------------------------------------------------------------------------
\* Matching engine (clob/matching.py, match_new_order)
\* ------------------------------------------------------------------------
\* resting_query: opposite side, same market and token, OPEN or PARTIAL
RestingQuery(store, new_order) ==
    {id \in DOMAIN store :
        /\ store[id].condition_id = new_order.condition_id
        /\ store[id].token_id = new_order.token_id
        /\ store[id].side = (IF new_order.side = "BUY" THEN "SELL" ELSE "BUY")
        /\ store[id].status \in {OPEN, PARTIAL}}

\* variant: resting orders are taken oldest first whatever their price
KeyLessByIdOnly(is_buy, a, b) == a.id < b.id

\* variant: among equal prices the newest resting order goes first
KeyLessNewestFirst(is_buy, a, b) ==
    LET pa == IF is_buy THEN SellPrice(a) ELSE BuyPrice(a)
        pb == IF is_buy THEN SellPrice(b) ELSE BuyPrice(b)
        before == IF is_buy THEN DecLess(pa, pb) ELSE DecLess(pb, pa)
        after == IF is_buy THEN DecLess(pb, pa) ELSE DecLess(pa, pb)
    IN before \/ (~after /\ a.id > b.id)

\* the sort key of a resting order is smaller than that of another:
\* (_sell_price(o), o.id) for a BUY taker, (-_buy_price(o), o.id) for a SELL
KeyLess(is_buy, a, b) ==
    LET pa == IF is_buy THEN SellPrice(a) ELSE BuyPrice(a)
        pb == IF is_buy THEN SellPrice(b) ELSE BuyPrice(b)
        before == IF is_buy THEN DecLess(pa, pb) ELSE DecLess(pb, pa)
        after == IF is_buy THEN DecLess(pb, pa) ELSE DecLess(pa, pb)
    IN before \/ (~after /\ a.id < b.id)

\* id takes its place in a sorted list: behind every row whose key is not
\* greater than its own (sorted() is stable)
InsertRow(store, sorted, id, is_buy) ==
    LET behind == {i \in DOMAIN sorted : KeyLess(is_buy, store[id], store[sorted[i]])}
        at == IF behind = {} THEN Len(sorted) + 1
              ELSE CHOOSE i \in behind : \A j \in behind : i <= j
    IN SubSeq(sorted, 1, at - 1) \o <<id>> \o SubSeq(sorted, at, Len(sorted))

RECURSIVE SortedRowsByPrice(_, _, _)
\* variant: the sort key is the price alone, rows of one price stay in the
\* order the store returned them
SortedRowsByPrice(store, rows, is_buy) ==
    IF rows = <<>> THEN <<>>
    ELSE LET sorted == SortedRowsByPrice(store, SubSeq(rows, 1, Len(rows) - 1), is_buy)
             row == store[rows[Len(rows)]]
             Price(o) == IF is_buy THEN SellPrice(o) ELSE BuyPrice(o)
             behind == {i \in DOMAIN sorted :
                          IF is_buy THEN DecLess(Price(row), Price(store[sorted[i]]))
                          ELSE DecLess(Price(store[sorted[i]]), Price(row))}
             at == IF behind = {} THEN Len(sorted) + 1
                   ELSE CHOOSE i \in behind : \A j \in behind : i <= j
         IN SubSeq(sorted, 1, at - 1) \o <<rows[Len(rows)]>> \o SubSeq(sorted, at, Len(sorted))

RECURSIVE SortedRows(_, _, _)
\* sorted(resting_orders_raw, key=lambda o: (price, o.id)) of the rows in
\* the order they came back
SortedRows(store, rows, is_buy) ==
    IF rows = <<>> THEN <<>>
    ELSE InsertRow(store, SortedRows(store, SubSeq(rows, 1, Len(rows) - 1), is_buy),
                   rows[Len(rows)], is_buy)

RECURSIVE SortResting(_, _, _)
\* sorted(resting_orders_raw, key=...): ids of S, best key first
SortResting(store, S, is_buy) ==
    IF S = {} THEN <<>>
    ELSE LET m == CHOOSE x \in S :
                    \A y \in S \ {x} : KeyLess(is_buy, store[x], store[y])
         IN <<m>> \o SortResting(store, S \ {m}, is_buy)

\* computing the sort keys divides by a resting order's amount
SortRaises(store, S, is_buy) ==
    \E id \in S : IF is_buy THEN SellPriceRaises(store[id])
                  ELSE BuyPriceRaises(store[id])

\* variant: the fill takes all the taker still wants, whatever the maker has left
FillTokensIgnoringMaker(taker_remaining, maker_remaining) == taker_remaining

\* variant: every fill is of a single token
FillTokensOneAtATime(taker_remaining, maker_remaining) == 1

\* fill_tokens = min(taker_remaining, maker_remaining)
FillTokens(taker_remaining, maker_remaining) ==
    Min(taker_remaining, maker_remaining)

\* variant: the collateral is rounded up instead of down
CollateralRoundedUp(is_buy, fill_tokens, maker_order) ==
    IF is_buy
    THEN (fill_tokens * maker_order.taker_amount + maker_order.maker_amount - 1)
            \div maker_order.maker_amount
    ELSE (fill_tokens * maker_order.maker_amount + maker_order.taker_amount - 1)
            \div maker_order.taker_amount

\* collateral = int((Decimal(fill_tokens) * maker price).to_integral_value(ROUND_DOWN))
Collateral(is_buy, fill_tokens, maker_order) ==
    IF is_buy THEN Product(fill_tokens, maker_order.taker_amount, maker_order.maker_amount)
    ELSE Product(fill_tokens, maker_order.maker_amount, maker_order.taker_amount)

\* fee = (collateral * protocol_fee_bps) // 10_000
Fee(collateral) == (collateral * PROTOCOL_FEE_BPS) \div 10000

\* variant: the scan never stops for a price
NoCrossNever(is_buy, incoming_price, maker_price) == FALSE

\* the crossing test of the loop: TRUE when the scan stops at this maker
NoCross(is_buy, incoming_price, maker_price) ==
    IF is_buy THEN DecLess(incoming_price, maker_price)
    ELSE DecLess(maker_price, incoming_price)

RECURSIVE MatchLoopBreaks(_, _, _, _, _, _)
\* variant: a candidate with nothing remaining ends the scan (break for continue)
MatchLoopBreaks(store, new_order, resting, i, taker_remaining, results) ==
    IF i > Len(resting) \/ taker_remaining <= 0 THEN results
    ELSE LET is_buy == new_order.side = "BUY"
             maker_order == store[resting[i]]
             maker_price == IF is_buy THEN SellPrice(maker_order) ELSE BuyPrice(maker_order)
             incoming_price == IF is_buy THEN BuyPrice(new_order) ELSE SellPrice(new_order)
             maker_remaining == RemainingTokens(maker_order)
             fill_tokens == FillTokens(taker_remaining, maker_remaining)
             collateral == Collateral(is_buy, fill_tokens, maker_order)
         IN IF NoCross(is_buy, incoming_price, maker_price) THEN results
            ELSE IF maker_remaining <= 0 THEN results
            ELSE MatchLoopBreaks(store, new_order, resting, i + 1,
                           taker_remaining - fill_tokens,
                           Append(results,
                                  [maker_order_id |-> maker_order.id,
                                   taker_order_id |-> new_order.id,
                                   maker_address |-> maker_order.maker_address,
                                   taker_address |-> new_order.maker_address,
                                   token_amount |-> fill_tokens,
                                   collateral_amount |-> collateral,
                                   fee |-> Fee(collateral),
                                   maker_order_exhausted |-> fill_tokens >= maker_remaining,
                                   taker_order_exhausted |-> fill_tokens >= taker_remaining]))

RECURSIVE MatchLoop(_, _, _, _, _, _)
\* the for-loop over resting_orders, from position i on
MatchLoop(store, new_order, resting, i, taker_remaining, results) ==
    IF i > Len(resting) \/ taker_remaining <= 0 THEN results
    ELSE LET is_buy == new_order.side = "BUY"
             maker_order == store[resting[i]]
             maker_price == IF is_buy THEN SellPrice(maker_order) ELSE BuyPrice(maker_order)
             incoming_price == IF is_buy THEN BuyPrice(new_order) ELSE SellPrice(new_order)
             maker_remaining == RemainingTokens(maker_order)
             fill_tokens == FillTokens(taker_remaining, maker_remaining)
             collateral == Collateral(is_buy, fill_tokens, maker_order)
         IN IF NoCross(is_buy, incoming_price, maker_price) THEN results
            ELSE IF maker_remaining <= 0
            THEN MatchLoop(store, new_order, resting, i + 1, taker_remaining, results)
            ELSE MatchLoop(store, new_order, resting, i + 1,
                           taker_remaining - fill_tokens,
                           Append(results,
                                  [maker_order_id |-> maker_order.id,
                                   taker_order_id |-> new_order.id,
                                   maker_address |-> maker_order.maker_address,
                                   taker_address |-> new_order.maker_address,
                                   token_amount |-> fill_tokens,
                                   collateral_amount |-> collateral,
                                   fee |-> Fee(collateral),
                                   maker_order_exhausted |-> fill_tokens >= maker_remaining,
                                   taker_order_exhausted |-> fill_tokens >= taker_remaining]))

\* match_new_order raises instead of returning
MatchRaises(store, new_order) ==
    /\ RemainingTokens(new_order) > 0
    /\ SortRaises(store, RestingQuery(store, new_order), new_order.side = "BUY")

\* the list of MatchResult had the resting rows come back as `rows`
MatchRows(store, new_order, rows) ==
    IF RemainingTokens(new_order) <= 0 THEN <<>>
    ELSE MatchLoop(store, new_order, SortedRows(store, rows, new_order.side = "BUY"),
                   1, RemainingTokens(new_order), <<>>)

\* match_new_order: the list of MatchResult, in the order generated
MatchNewOrder(store, new_order) ==
    IF RemainingTokens(new_order) <= 0 THEN <<>>
    ELSE MatchLoop(store, new_order,
                   SortResting(store, RestingQuery(store, new_order), new_order.side = "BUY"),
                   1, RemainingTokens(new_order), <<>>)

\* ------------------------------------------------------------------------
\* Order-book snapshot (clob/matching.py, get_orderbook_snapshot)
\* ------------------------------------------------------------------------
\* the query of lines 233-243: resting orders of the market and token
SnapshotQuery(store, condition_id, token_id) ==
    {id \in DOMAIN store :
        /\ store[id].condition_id = condition_id
        /\ store[id].token_id = token_id
        /\ store[id].status \in {OPEN, PARTIAL}}

\* _buy_price(o).quantize(PRICE_PRECISION) / _sell_price(o).quantize(...),
\* in millionths
LevelPrice(o) ==
    DecQuantize(IF o.side = "BUY" THEN BuyPrice(o) ELSE SellPrice(o))

\* variant: the order's quantity replaces the size of its level
AddToLevelOverwriting(levels, price, remaining) ==
    LET level == [price |-> price, size |-> remaining,
                  order_count |-> IF price \in DOMAIN levels
                                  THEN levels[price].order_count + 1 ELSE 1]
    IN  [q \in DOMAIN levels \cup {price} |-> IF q = price THEN level ELSE levels[q]]

\* lines 256-259 / 262-265: the level of `price` is created empty when it is
\* new, then takes the order's remaining quantity and counts the order
AddToLevel(levels, price, remaining) ==
    LET old == IF price \in DOMAIN levels THEN levels[price]
               ELSE [price |-> price, size |-> 0, order_count |-> 0]
        level == [old EXCEPT !.size = @ + remaining, !.order_count = @ + 1]
    IN  [q \in DOMAIN levels \cup {price} |-> IF q = price THEN level ELSE levels[q]]

RECURSIVE AggregateLevels(_, _, _)
\* the loop of lines 250-265 over the rows the query returned; book holds
\* buy_levels and sell_levels, each a dict from price to AggregatedLevel
AggregateLevels(store, ids, book) ==
    IF ids = <<>> THEN book
    ELSE LET o == store[Head(ids)]
             remaining == RemainingTokens(o)
         IN IF remaining <= 0 THEN AggregateLevels(store, Tail(ids), book)
            ELSE IF o.side = "BUY"
            THEN AggregateLevels(store, Tail(ids),
                    [book EXCEPT !.buy = AddToLevel(@, LevelPrice(o), remaining)])
            ELSE AggregateLevels(store, Tail(ids),
                    [book EXCEPT !.sell = AddToLevel(@, LevelPrice(o), remaining)])

RECURSIVE SortLevels(_, _)
\* sorted(levels.values(), key = -price) when descending, key = price otherwise
SortLevels(levels, descending) ==
    IF DOMAIN levels = {} THEN <<>>
    ELSE LET first == CHOOSE q \in DOMAIN levels :
                        \A r \in DOMAIN levels : IF descending THEN r <= q ELSE q <= r
         IN <<levels[first]>> \o
            SortLevels([q \in DOMAIN levels \ {first} |-> levels[q]], descending)

\* variant: the whole list is returned
TakeAll(s, depth) == s

\* s[:depth]
Take(s, depth) == SubSeq(s, 1, Min(depth, Len(s)))

\* mid_price = None
None == <<>>

\* variant: the missing mid price is reported as zero
MidPriceOrZero(bids, asks) ==
    IF bids # <<>> /\ asks # <<>>
    THEN <<DecQuantize([DecDiv(bids[1].price + asks[1].price, 2) EXCEPT !.exp = @ - PRICE_PLACES])>>
    ELSE <<0>>

\* lines 277-280: ((bids[0].price + asks[0].price) / 2).quantize(PRICE_PRECISION)
\* in millionths, as a one-element tuple; None when a side is empty
MidPrice(bids, asks) ==
    IF bids # <<>> /\ asks # <<>>
    THEN <<DecQuantize([DecDiv(bids[1].price + asks[1].price, 2) EXCEPT !.exp = @ - PRICE_PLACES])>>
    ELSE None

\* get_orderbook_snapshot: bids, asks and mid_price
OrderbookSnapshot(store, condition_id, token_id, depth) ==
    LET ids == SetToSeq(SnapshotQuery(store, condition_id, token_id))
        empty == [q \in {} |-> Null]
        book == AggregateLevels(store, ids, [buy |-> empty, sell |-> empty])
        bids == Take(SortLevels(book.buy, TRUE), depth)
        asks == Take(SortLevels(book.sell, FALSE), depth)
    IN  [bids |-> bids, asks |-> asks, mid_price |-> MidPrice(bids, asks)]

\* ------------------------------------------------------------------------
\* State
\* ------------------------------------------------------------------------
VARIABLES
    orders,       \* committed rows of table orders: id -> row
    fills,        \* committed rows of table fills: id -> row
    nextOrderId,  \* next value of the orders.id sequence
    nextFillId,   \* next value of the fills.id sequence
    nextTx,       \* next transaction reference the chain executor returns
    pc,           \* pc[p]: where unit of work p stands
    req,          \* req[p]: the inputs of the operation p is running
    loc,          \* loc[p]: what p's session has read and staged
    signals,      \* settle_fills messages waiting in the task broker
    now,          \* the time: expiration timestamps and UTC minutes count in it
    rounds,       \* committed rows of table btc_market_rounds: id -> row
    markets       \* committed rows of table markets that belong to a round: id -> row

vars == <<orders, fills, nextOrderId, nextFillId, nextTx, pc, req, loc, signals, now, rounds, markets>>

store == <<orders, fills>>

Init ==
    /\ orders = [id \in {} |-> Null]
    /\ fills = [id \in {} |-> Null]
    /\ nextOrderId = 1
    /\ nextFillId = 1
    /\ nextTx = 1
    /\ pc = [p \in Procs |-> "idle"]
    /\ req = [p \in Procs |-> Null]
    /\ loc = [p \in Procs |-> Null]
    /\ signals = 0
    /\ now = 0
    /\ rounds = <<>>
    /\ markets = <<>>

\* p returns or raises: its session is closed, what it staged is dropped
Finish(p) ==
    /\ pc' = [pc EXCEPT ![p] = "idle"]
    /\ req' = [req EXCEPT ![p] = Null]
    /\ loc' = [loc EXCEPT ![p] = Null]

\* ------------------------------------------------------------------------
\* submit_order (clob/service.py)
\* ------------------------------------------------------------------------
\* expected_signer = payload.signer if payload.signer != zero else maker_address
ExpectedSigner(payload) ==
    IF payload.signer # ZeroAddress THEN payload.signer ELSE payload.maker_address

\* variant: the recovered address is never compared with the expected signer
SignatureOkWithoutCompare(payload, recovered) == recovered # RAISES

\* the try block around chain.recover_signer passes
SignatureOk(payload, recovered) ==
    recovered # RAISES /\ recovered = ExpectedSigner(payload)

\* chain_order.to_tuple(): the fields the hash is computed over
ChainOrderTuple(payload) ==
    <<payload.maker_address, payload.token_id, payload.maker_amount,
      payload.taker_amount, payload.expiration, payload.fee_rate_bps, payload.side,
      payload.signer>>

\* chain.get_order_hash, or the local sha256 fallback when the node is
\* unreachable; the two are different functions of the same tuple
OrderHash(payload, reachable) ==
    [src |-> IF reachable THEN "chain" ELSE "local", of |-> ChainOrderTuple(payload)]

\* select(Order).where(Order.order_hash == order_hash) finds a row
ExistingHash(h) == \E id \in DOMAIN orders : orders[id].order_hash = h

\* variant: orders.order_hash carries no unique index
NoUniqueIndex(h) == FALSE

\* unique index on orders.order_hash: a committed row holds the value
UniqueViolation(h) == \E id \in DOMAIN orders : orders[id].order_hash = h

\* another open transaction holds an uncommitted row with the value
UniqueWait(p, h) ==
    \E q \in Procs \ {p} : pc[q] \in {"match", "apply"} /\ loc[q].order_hash = h

\* Order(...): the row as constructed at lines 120-136
NewOrderRow(payload, id, h) ==
    [id |-> id,
     condition_id |-> payload.condition_id,
     token_id |-> payload.token_id,
     maker_address |-> payload.maker_address,
     maker_amount |-> payload.maker_amount,
     taker_amount |-> payload.taker_amount,
     expiration |-> payload.expiration,
     fee_rate_bps |-> payload.fee_rate_bps,
     side |-> payload.side,
     signer |-> payload.signer,
     order_hash |-> h,
     status |-> OPEN,
     filled_amount |-> 0]

\* lines 80-117: a request arrives with `payload`; recover_signer answers
\* `recovered` for its signature, the node answers get_order_hash or not;
\* signature check, order hash, duplicate check
SubmitVerify(p, payload, recovered, reachable) ==
    /\ pc[p] = "idle"
    /\ LET h == OrderHash(payload, reachable)
       IN IF ~SignatureOk(payload, recovered)
          THEN /\ pc' = [pc EXCEPT ![p] = "sig_invalid"]
               /\ UNCHANGED <<req, loc>>
          ELSE IF ExistingHash(h)
          THEN /\ pc' = [pc EXCEPT ![p] = "duplicate"]
               /\ UNCHANGED <<req, loc>>
          ELSE /\ pc' = [pc EXCEPT ![p] = "insert"]
               /\ req' = [req EXCEPT ![p] = [op |-> "submit", payload |-> payload,
                                             recovered |-> recovered]]
               /\ loc' = [loc EXCEPT ![p] = [order_hash |-> h]]
    /\ UNCHANGED <<orders, fills, nextOrderId, nextFillId, nextTx, signals, now, rounds, markets>>

\* the ValueError of line 101 or line 117 leaves submit_order
SubmitReject(p) ==
    /\ pc[p] \in {"sig_invalid", "duplicate"}
    /\ Finish(p)
    /\ UNCHANGED <<orders, fills, nextOrderId, nextFillId, nextTx, signals, now, rounds, markets>>

\* variant: the new row is committed on its own as soon as it is inserted
SubmitInsertCommitted(p) ==
    /\ pc[p] = "insert"
    /\ ~UniqueWait(p, loc[p].order_hash)
    /\ IF UniqueViolation(loc[p].order_hash)
       THEN Finish(p) /\ UNCHANGED <<orders, nextOrderId>>
       ELSE /\ pc' = [pc EXCEPT ![p] = "match"]
            /\ loc' = [loc EXCEPT ![p] =
                         [order_hash |-> loc[p].order_hash,
                          order |-> NewOrderRow(req[p].payload, nextOrderId, loc[p].order_hash)]]
            /\ orders' = [id \in DOMAIN orders \cup {nextOrderId} |->
                            IF id = nextOrderId
                            THEN NewOrderRow(req[p].payload, nextOrderId, loc[p].order_hash)
                            ELSE orders[id]]
            /\ nextOrderId' = nextOrderId + 1
            /\ UNCHANGED req
    /\ UNCHANGED <<fills, nextFillId, nextTx, signals, now, rounds, markets>>

\* lines 119-138: db.add(order); await db.flush()
SubmitInsert(p) ==
    /\ pc[p] = "insert"
    /\ ~UniqueWait(p, loc[p].order_hash)
    /\ IF UniqueViolation(loc[p].order_hash)
       THEN Finish(p) /\ UNCHANGED nextOrderId
       ELSE /\ pc' = [pc EXCEPT ![p] = "match"]
            /\ loc' = [loc EXCEPT ![p] =
                         [order_hash |-> loc[p].order_hash,
                          order |-> NewOrderRow(req[p].payload, nextOrderId, loc[p].order_hash)]]
            /\ nextOrderId' = nextOrderId + 1
            /\ UNCHANGED req
    /\ UNCHANGED <<orders, fills, nextFillId, nextTx, signals, now, rounds, markets>>

\* line 141: matches = await match_new_order(db, order); `loaded` is what the
\* session's identity map holds of the matched makers from now on
SubmitMatch(p) ==
    /\ pc[p] = "match"
    /\ IF MatchRaises(orders, loc[p].order)
       THEN Finish(p)
       ELSE LET matches == MatchNewOrder(orders, loc[p].order)
                makers == {matches[i].maker_order_id : i \in DOMAIN matches}
            IN /\ pc' = [pc EXCEPT ![p] = "apply"]
               /\ loc' = [loc EXCEPT ![p] =
                            [order_hash |-> loc[p].order_hash,
                             order |-> loc[p].order,
                             matches |-> matches,
                             loaded |-> [id \in makers |-> orders[id]]]]
               /\ UNCHANGED req
    /\ UNCHANGED <<orders, fills, nextOrderId, nextFillId, nextTx, signals, now, rounds, markets>>

\* _apply_match on the session's objects: sess.taker, sess.makers, sess.fills
ApplyMatch(sess, match) ==
    LET maker_order == sess.makers[match.maker_order_id]
        new_maker_filled == maker_order.filled_amount + match.token_amount
        new_taker_filled == sess.taker.filled_amount + match.token_amount
    IN [taker |-> [sess.taker EXCEPT
                     !.filled_amount = new_taker_filled,
                     !.status = IF match.taker_order_exhausted THEN FILLED ELSE PARTIAL],
        makers |-> [sess.makers EXCEPT ![match.maker_order_id] =
                     [maker_order EXCEPT
                        !.filled_amount = new_maker_filled,
                        !.status = IF match.maker_order_exhausted THEN FILLED ELSE PARTIAL]],
        fills |-> Append(sess.fills,
                     [maker_order_id |-> match.maker_order_id,
                      taker_order_id |-> sess.taker.id,
                      maker_address |-> match.maker_address,
                      taker_address |-> match.taker_address,
                      token_amount |-> match.token_amount,
                      collateral_amount |-> match.collateral_amount,
                      fee |-> match.fee,
                      status |-> PENDING,
                      tx_hash |-> 0])]

RECURSIVE ApplyMatches(_, _)
\* for match in matches: await _apply_match(...)
ApplyMatches(sess, matches) ==
    IF matches = <<>> THEN sess
    ELSE ApplyMatches(ApplyMatch(sess, Head(matches)), Tail(matches))

\* variant: the UPDATE writes every attribute of the session's object
FlushWholeRow(row, loaded, current) ==
    [row EXCEPT !.filled_amount = current.filled_amount, !.status = current.status]

\* the UPDATE the unit of work emits for a loaded row: only the attributes
\* whose value differs from the loaded one are written
FlushUpdate(row, loaded, current) ==
    [row EXCEPT
       !.filled_amount = IF current.filled_amount # loaded.filled_amount
                         THEN current.filled_amount ELSE @,
       !.status = IF current.status # loaded.status THEN current.status ELSE @]

\* the tables after the session's INSERTs and UPDATEs are committed
CommitOrders(sess, loaded) ==
    [id \in DOMAIN orders \cup {sess.taker.id} |->
        IF id = sess.taker.id THEN sess.taker
        ELSE IF id \in DOMAIN loaded THEN FlushUpdate(orders[id], loaded[id], sess.makers[id])
        ELSE orders[id]]

\* variant: the new Fill rows are keyed by their position in the session
CommitFillsByPosition(sess) ==
    [id \in DOMAIN fills \cup DOMAIN sess.fills |->
        IF id \in DOMAIN sess.fills THEN sess.fills[id] ELSE fills[id]]

\* the fills table after the session's INSERTs are committed: the new rows
\* take the next ids of the sequence
CommitFills(sess) ==
    [id \in DOMAIN fills \cup {nextFillId + i - 1 : i \in DOMAIN sess.fills} |->
        IF id \in DOMAIN fills THEN fills[id] ELSE sess.fills[id - nextFillId + 1]]

\* lines 143-165: apply the matches, commit, signal settlement when fills
\* were created (settle_fills.delay() reaches the broker, delivered, or raises
\* and is logged), return
SubmitCommit(p, delivered) ==
    /\ pc[p] = "apply"
    /\ LET sess == ApplyMatches([taker |-> loc[p].order, makers |-> loc[p].loaded, fills |-> <<>>],
                                loc[p].matches)
       IN /\ orders' = CommitOrders(sess, loc[p].loaded)
          /\ fills' = CommitFills(sess)
          /\ nextFillId' = nextFillId + Len(sess.fills)
          /\ signals' = IF Len(sess.fills) > 0 /\ delivered THEN signals + 1 ELSE signals
    /\ Finish(p)
    /\ UNCHANGED <<nextOrderId, nextTx, now, rounds, markets>>

\* an await of submit_order raises after the duplicate check (store error,
\* dropped connection): get_db_session rolls the session back
SubmitFail(p) ==
    /\ pc[p] \in {"insert", "match", "apply"}
    /\ Finish(p)
    /\ UNCHANGED <<orders, fills, nextOrderId, nextFillId, nextTx, signals, now, rounds, markets>>

\* ------------------------------------------------------------------------
\* cancel_order (clob/service.py)
\* ------------------------------------------------------------------------
\* variant: the order is looked up by its id alone
CancelFindsById(order_id, maker_address) == order_id \in DOMAIN orders

\* where(Order.id == order_id, Order.maker_address == maker_address)
CancelFinds(order_id, maker_address) ==
    order_id \in DOMAIN orders /\ orders[order_id].maker_address = maker_address

\* variant: only an order that is already cancelled is refused
CancelTerminalOnlyCancelled(order) == order.status = CANCELLED

\* order.status in (FILLED, CANCELLED, EXPIRED)
CancelTerminal(order) == order.status \in {FILLED, CANCELLED, EXPIRED}

\* lines 226-235: load the order; an unknown one (or another maker's) and a
\* terminal one are refused with a ValueError
CancelRead(p, order_id, maker_address) ==
    /\ pc[p] = "idle"
    /\ req' = [req EXCEPT ![p] = [op |-> "cancel", order_id |-> order_id,
                                  maker_address |-> maker_address]]
    /\ IF ~CancelFinds(order_id, maker_address)
       THEN /\ pc' = [pc EXCEPT ![p] = "cancel_not_found"]
            /\ loc' = [loc EXCEPT ![p] = Null]
       ELSE /\ pc' = [pc EXCEPT ![p] = IF CancelTerminal(orders[order_id])
                                       THEN "cancel_rejected" ELSE "cancel_commit"]
            /\ loc' = [loc EXCEPT ![p] = [order |-> orders[order_id]]]
    /\ UNCHANGED <<orders, fills, nextOrderId, nextFillId, nextTx, signals, now, rounds, markets>>

\* lines 233 and 235: the ValueError leaves the handler
CancelReject(p) ==
    /\ pc[p] \in {"cancel_not_found", "cancel_rejected"}
    /\ Finish(p)
    /\ UNCHANGED <<orders, fills, nextOrderId, nextFillId, nextTx, signals, now, rounds, markets>>

\* lines 237-239: order.status = CANCELLED; await db.commit();
\* await db.refresh(order).  loaded keeps the row as the request read it
CancelCommit(p) ==
    /\ pc[p] = "cancel_commit"
    /\ orders' = [orders EXCEPT ![req[p].order_id] =
                    FlushUpdate(@, loc[p].order, [loc[p].order EXCEPT !.status = CANCELLED])]
    /\ pc' = [pc EXCEPT ![p] = "cancel_chain"]
    /\ loc' = [loc EXCEPT ![p] = [loaded |-> loc[p].order,
                                  order |-> orders'[req[p].order_id]]]
    /\ UNCHANGED <<fills, nextOrderId, nextFillId, nextTx, signals, now, rounds, markets, req>>

\* variant: a failed on-chain cancellation restores the status the request
\* found and raises
CancelOnChainRollsBack(p, ok) ==
    /\ pc[p] = "cancel_chain"
    /\ IF ok
       THEN /\ pc' = [pc EXCEPT ![p] = "cancel_done"]
            /\ loc' = [loc EXCEPT ![p] = [loaded |-> loc[p].loaded,
                                          order |-> loc[p].order, onchain |-> ok]]
            /\ UNCHANGED <<orders, req>>
       ELSE /\ orders' = [orders EXCEPT ![req[p].order_id].status = loc[p].loaded.status]
            /\ Finish(p)
    /\ UNCHANGED <<fills, nextOrderId, nextFillId, nextTx, signals, now, rounds, markets>>

\* lines 241-249: chain.cancel_order_onchain succeeds (ok) or raises; the
\* failure is logged and _order_to_response(order) is returned either way
CancelOnChain(p, ok) ==
    /\ pc[p] = "cancel_chain"
    /\ pc' = [pc EXCEPT ![p] = "cancel_done"]
    /\ loc' = [loc EXCEPT ![p] = [loaded |-> loc[p].loaded, order |-> loc[p].order,
                                  onchain |-> ok]]
    /\ UNCHANGED <<orders, fills, nextOrderId, nextFillId, nextTx, signals, now, rounds, markets, req>>

\* line 249: the response leaves the handler
CancelReturn(p) ==
    /\ pc[p] = "cancel_done"
    /\ Finish(p)
    /\ UNCHANGED <<orders, fills, nextOrderId, nextFillId, nextTx, signals, now, rounds, markets>>

\* ------------------------------------------------------------------------
\* Settlement tasks (tasks/settlement_tasks.py)
\* ------------------------------------------------------------------------
\* variant: the job also picks up the fills that failed before
UnsettledFills == {f \in DOMAIN fills : fills[f].status # SETTLED}

\* select(Fill).where(Fill.status == FillStatus.PENDING)
PendingFills == {f \in DOMAIN fills : fills[f].status = PENDING}

RECURSIVE SubsetsOfSize(_, _)
\* the subsets of S that have k elements
SubsetsOfSize(S, k) ==
    IF k = 0 THEN {{}}
    ELSE {T \cup {x} : T \in SubsetsOfSize(S, k - 1), x \in S} \ SubsetsOfSize(S, k - 1)

\* the result sets select(Fill).where(status == PENDING).limit(100) may
\* return: the query has no ORDER BY, so any rows beyond the limit can be the
\* ones left out
SelectPending ==
    LET beyond == Cardinality(PendingFills) - Min(Cardinality(PendingFills), SETTLE_BATCH_LIMIT)
    IN {PendingFills \ left_out : left_out \in SubsetsOfSize(PendingFills, beyond)}

\* fills_by_condition as a list of [condition_id, fill_ids], in dict order:
\* a fill whose maker order does not load is left out, a group stands where
\* its first fill stood
GroupByCondition(fill_ids) ==
    LET loads == SelectSeq(fill_ids, LAMBDA f : fills[f].maker_order_id \in DOMAIN orders)
        ConditionOf(f) == orders[fills[f].maker_order_id].condition_id
        firsts == SetToSeq({i \in DOMAIN loads :
                              \A j \in 1 .. i - 1 :
                                  ConditionOf(loads[j]) # ConditionOf(loads[i])})
    IN [k \in DOMAIN firsts |->
           [condition_id |-> ConditionOf(loads[firsts[k]]),
            fill_ids |-> SelectSeq(loads, LAMBDA f :
                                     ConditionOf(f) = ConditionOf(loads[firsts[k]]))]]

\* _settle_fills_async, lines 58-85: select the PENDING fills and group them
SettleFillsRead(p, queued) ==
    /\ pc[p] = "idle"
    /\ IF queued THEN signals > 0 /\ signals' = signals - 1 ELSE UNCHANGED signals
    /\ IF PendingFills = {} THEN Finish(p)
       ELSE \E S \in SelectPending :
              /\ pc' = [pc EXCEPT ![p] = "settle_call"]
              /\ req' = [req EXCEPT ![p] = [op |-> "settle_fills"]]
              /\ loc' = [loc EXCEPT ![p] =
                           [selected |-> S,
                            groups |-> GroupByCondition(SetToSeq(S)),
                            staged |-> [f \in {} |-> Null]]]
    /\ UNCHANGED <<orders, fills, nextOrderId, nextFillId, nextTx, now, rounds, markets>>

\* settle_fill_by_id, lines 238-250: load one fill, skip it unless PENDING
SettleFillByIdRead(p, fill_id) ==
    /\ pc[p] = "idle"
    /\ IF fill_id \notin DOMAIN fills \/ fills[fill_id].status # PENDING
       THEN Finish(p)
       ELSE /\ pc' = [pc EXCEPT ![p] = "settle_call"]
            /\ req' = [req EXCEPT ![p] = [op |-> "settle_fill_by_id", fill_id |-> fill_id]]
            /\ loc' = [loc EXCEPT ![p] =
                         [selected |-> {fill_id},
                          groups |-> GroupByCondition(<<fill_id>>),
                          staged |-> [f \in {} |-> Null]]]
    /\ UNCHANGED <<orders, fills, nextOrderId, nextFillId, nextTx, signals, now, rounds, markets>>

\* the fill_ids list _settle_condition_fills builds: fills whose taker order loads
PreparedFillIds(fill_ids) ==
    SelectSeq(fill_ids, LAMBDA f : fills[f].taker_order_id \in DOMAIN orders)

\* the UPDATE statements of lines 191-213 for one group, staged in the session
StageGroup(staged, fill_ids, ok, tx) ==
    [f \in DOMAIN staged \cup Range(fill_ids) |->
        IF f \in Range(fill_ids)
        THEN (IF ok THEN [status |-> SETTLED, tx_hash |-> tx] ELSE [status |-> FAILED])
        ELSE staged[f]]

\* _settle_condition_fills for the next group: chain.fill_orders returns a
\* transaction reference (ok) or raises
SettleCall(p, ok) ==
    /\ pc[p] = "settle_call"
    /\ loc[p].groups # <<>>
    /\ LET fill_ids == PreparedFillIds(Head(loc[p].groups).fill_ids)
       IN /\ loc' = [loc EXCEPT ![p] =
                       [selected |-> loc[p].selected,
                        groups |-> Tail(loc[p].groups),
                        staged |-> IF fill_ids = <<>> THEN loc[p].staged
                                   ELSE StageGroup(loc[p].staged, fill_ids, ok, nextTx)]]
          /\ nextTx' = IF ok /\ fill_ids # <<>> THEN nextTx + 1 ELSE nextTx
    /\ UNCHANGED <<orders, fills, nextOrderId, nextFillId, pc, req, signals, now, rounds, markets>>

\* UPDATE fills SET ... WHERE id = fill_id, as committed
SettleWrite(row, upd) ==
    IF upd.status = SETTLED
    THEN [row EXCEPT !.status = SETTLED, !.tx_hash = upd.tx_hash]
    ELSE [row EXCEPT !.status = FAILED]

\* await db.commit() (line 94 / line 251)
SettleCommit(p) ==
    /\ pc[p] = "settle_call"
    /\ loc[p].groups = <<>>
    /\ fills' = [f \in DOMAIN fills |->
                    IF f \in DOMAIN loc[p].staged THEN SettleWrite(fills[f], loc[p].staged[f])
                    ELSE fills[f]]
    /\ Finish(p)
    /\ UNCHANGED <<orders, nextOrderId, nextFillId, nextTx, signals, now, rounds, markets>>

\* the transaction of p's session: the select of line 60 (line 238) begins
\* it, and nothing ends it before the db.commit() of line 94 (line 251) - the
\* calls of _settle_condition_fills run inside `async for db in
\* get_db_session()`
SettleTransactionOpen(p) ==
    /\ req[p] # Null
    /\ req[p].op \in {"settle_fills", "settle_fill_by_id"}
    /\ pc[p] = "settle_call"

\* ------------------------------------------------------------------------
\* GET /markets/{condition_id}/orderbook (clob/matching.py)
\* ------------------------------------------------------------------------
\* get_orderbook_snapshot reads the committed rows and builds the snapshot
OrderbookRead(p, condition_id, token_id, depth) ==
    /\ pc[p] = "idle"
    /\ pc' = [pc EXCEPT ![p] = "book_done"]
    /\ req' = [req EXCEPT ![p] = [op |-> "orderbook", condition_id |-> condition_id,
                                  token_id |-> token_id, depth |-> depth]]
    /\ loc' = [loc EXCEPT ![p] =
                 [snapshot |-> OrderbookSnapshot(orders, condition_id, token_id, depth)]]
    /\ UNCHANGED <<orders, fills, nextOrderId, nextFillId, nextTx, signals, now, rounds, markets>>

\* the snapshot is returned
OrderbookReturn(p) ==
    /\ pc[p] = "book_done"
    /\ Finish(p)
    /\ UNCHANGED <<orders, fills, nextOrderId, nextFillId, nextTx, signals, now, rounds, markets>>

\* ------------------------------------------------------------------------
\* Time
\* ------------------------------------------------------------------------
\* the clock passes one more expiration timestamp
Tick ==
    /\ now < MaxNow
    /\ now' = now + 1
    /\ UNCHANGED <<orders, fills, nextOrderId, nextFillId, nextTx, pc, req, loc, signals,
                 rounds, markets>>

\* ------------------------------------------------------------------------
\* BTC round rotation (tasks/btc_market_tasks.py, services/price_oracle.py)
\* ------------------------------------------------------------------------
\* STRIKE_OFFSETS 1.001, 1.0005, 1, 0.9995, 0.999 as ten-thousandths, by
\* strike index
STRIKE_OFFSETS == [i \in 0 .. 4 |-> CASE i = 0 -> 10010 [] i = 1 -> 10005 [] i = 2 -> 10000
                                      [] i = 3 -> 9995 [] i = 4 -> 9990]

\* compute_strikes: (price * offset).quantize(0.01, ROUND_HALF_UP), in cents
ComputeStrike(price, i) == (price * STRIKE_OFFSETS[i] + 5000) \div 10000

\* the newest ACTIVE round: order_by(id.desc()).limit(1); 0 when there is none
PrevRound ==
    LET active == {r \in DOMAIN rounds : rounds[r].status = "ACTIVE"}
    IN  IF active = {} THEN 0 ELSE CHOOSE r \in active : \A q \in active : q <= r

\* lines 120-151: the markets of round r are resolved against btc_price, the
\* ones whose on-chain call raises (strike index in resolve_fail) stay as
\* they are
ResolveMarkets(r, btc_price, resolve_fail) ==
    [m \in DOMAIN markets |->
        IF markets[m].btc_round_id = r /\ markets[m].strike_index \notin resolve_fail
        THEN [markets[m] EXCEPT
                !.status = "RESOLVED",
                !.yes_payout = IF btc_price > markets[m].strike_price THEN 1 ELSE 0,
                !.no_payout = IF btc_price > markets[m].strike_price THEN 0 ELSE 1]
        ELSE markets[m]]

\* lines 153-157: the round takes the closing price and RESOLVED, or FAILED
\* when a resolution raised
ResolveRound(r, btc_price, resolve_fail) ==
    LET errors == {m \in DOMAIN markets :
                      markets[m].btc_round_id = r /\ markets[m].strike_index \in resolve_fail}
    IN  [rounds EXCEPT ![r] = [@ EXCEPT !.btc_price_at_close = btc_price,
                                        !.status = IF errors # {} THEN "FAILED"
                                                   ELSE "RESOLVED"]]

RECURSIVE NewMarkets(_, _, _, _)
\* lines 196-245: one ACTIVE market for each strike whose on-chain creation
\* succeeds, in strike order from index i on
NewMarkets(r, btc_price, create_fail, i) ==
    IF i > 4 THEN <<>>
    ELSE (IF i \in create_fail THEN <<>>
          ELSE <<[btc_round_id |-> r, strike_index |-> i,
                  strike_price |-> ComputeStrike(btc_price, i),
                  status |-> "ACTIVE", yes_payout |-> -1, no_payout |-> -1]>>)
         \o NewMarkets(r, btc_price, create_fail, i + 1)

\* _rotate_btc_round_async at minute `now`: get_btc_usd_price answers
\* btc_price (cents) when price_ok and raises otherwise; resolve_fail /
\* create_fail are the strike indexes whose on-chain resolution / creation
\* raises
RotateBtcRound(price_ok, btc_price, resolve_fail, create_fail) ==
    /\ IF ~price_ok THEN UNCHANGED <<rounds, markets>>
       ELSE LET prev == PrevRound
                resolved_rounds == IF prev = 0 THEN rounds
                                   ELSE ResolveRound(prev, btc_price, resolve_fail)
                resolved_markets == IF prev = 0 THEN markets
                                    ELSE ResolveMarkets(prev, btc_price, resolve_fail)
                existing == \E r \in DOMAIN resolved_rounds :
                               resolved_rounds[r].round_start = now
            IN  IF existing
                THEN rounds' = resolved_rounds /\ markets' = resolved_markets
                ELSE /\ rounds' = Append(resolved_rounds,
                                     [round_start |-> now, round_end |-> now + 1,
                                      btc_price_at_open |-> btc_price,
                                      btc_price_at_close |-> -1, status |-> "ACTIVE"])
                     /\ markets' = resolved_markets \o
                                   NewMarkets(Len(rounds) + 1, btc_price, create_fail, 0)
    /\ UNCHANGED <<orders, fills, nextOrderId, nextFillId, nextTx, pc, req, loc, signals, now>>

\* ------------------------------------------------------------------------
\* Specifications
\* ------------------------------------------------------------------------
\* the steps of submit_order, for requests drawn from the given sets; at most
\* `limit` rows of orders are ever inserted, counting the requests that have
\* passed the checks and not inserted yet
SubmitStepsVia(p, payloads, limit, recovers, reach, broker) ==
    \/ /\ nextOrderId + Cardinality({q \in Procs : pc[q] = "insert"}) <= limit
       /\ \E payload \in payloads, recovered \in recovers, reachable \in reach :
              SubmitVerify(p, payload, recovered, reachable)
    \/ SubmitReject(p)
    \/ SubmitInsert(p)
    \/ SubmitMatch(p)
    \/ \E delivered \in broker : SubmitCommit(p, delivered)
    \/ SubmitFail(p)

\* the same while the task broker is out of reach: no settle_fills message is
\* queued, the settlement tasks start whenever somebody runs them
SubmitStepsOf(p, payloads, limit, recovers, reach) ==
    SubmitStepsVia(p, payloads, limit, recovers, reach, {FALSE})

\* the same for the request bodies of OrderCreate
SubmitSteps(p, limit, recovers, reach) ==
    SubmitStepsOf(p, OrderCreate, limit, recovers, reach)

\* the steps of cancel_order
CancelSteps(p) ==
    \/ \E order_id \in 1 .. nextOrderId, maker_address \in Addresses :
           CancelRead(p, order_id, maker_address)
    \/ CancelReject(p)
    \/ CancelCommit(p)
    \/ \E ok \in BOOLEAN : CancelOnChain(p, ok)
    \/ CancelReturn(p)

\* the steps of the settlement tasks
SettleSteps(p) ==
    \/ nextTx <= MaxTx /\ SettleFillsRead(p, FALSE)
    \/ nextTx <= MaxTx /\ \E fill_id \in 1 .. nextFillId : SettleFillByIdRead(p, fill_id)
    \/ \E ok \in BOOLEAN : SettleCall(p, ok)
    \/ SettleCommit(p)

\* submissions served concurrently, with every answer recover_signer can
\* give; the node answers every get_order_hash call
Next ==
    \E p \in Procs : SubmitSteps(p, MaxOrders, Addresses \cup {RAISES}, {TRUE})

Spec == Init /\ [][Next]_vars

\* submissions and cancellations served concurrently
NextCancel ==
    \E p \in Procs :
        \/ SubmitSteps(p, MaxOrders, Makers, {TRUE})
        \/ CancelSteps(p)

SpecCancel == Init /\ [][NextCancel]_vars

\* submissions with room for two takers racing for one resting order
NextRace ==
    \E p \in Procs : SubmitSteps(p, MaxRaceOrders, Makers, {TRUE})

SpecRace == Init /\ [][NextRace]_vars

\* submissions while the node may be unreachable for get_order_hash
NextHash ==
    \E p \in Procs : SubmitSteps(p, MaxOrders, Makers, BOOLEAN)

SpecHash == Init /\ [][NextHash]_vars

\* submissions and the settlement tasks
NextSettle ==
    \E p \in Procs :
        \/ SubmitSteps(p, MaxOrders, Makers, {TRUE})
        \/ SettleSteps(p)

SpecSettle == Init /\ [][NextSettle]_vars

\* submissions served one at a time, with room for two resting orders and a
\* taker: every call of match_new_order sees a book built by earlier calls
NextBook == SubmitSteps("w1", MaxBookOrders, Makers, {TRUE})

SpecBook == Init /\ [][NextBook]_vars

\* amounts whose quotient is not a finite decimal, and an amount large
\* enough for a fee of 50 basis points to be a whole unit
WideAmounts == {1, 3, 200}

\* the ends of the range OrderCreate.fee_rate_bps accepts (ge=0, le=200)
FeeRates == {0, 200}

\* submissions served one at a time, over the wider amounts and fee rates
NextWide ==
    SubmitStepsOf("w1", OrderCreateOf(Conditions, WideAmounts, FeeRates),
                  MaxOrders, Makers, {TRUE})

SpecWide == Init /\ [][NextWide]_vars

\* one seller offering three tokens at price 1, and buyers of one or two
\* tokens at up to twice that price
DeepPayloads ==
    {pl \in OrderCreateOf(Conditions, 1 .. 3, {DEFAULT_FEE_RATE_BPS}) :
        IF pl.side = "SELL" THEN pl.maker_amount = 3 /\ pl.taker_amount = 3
        ELSE pl.maker_amount <= 2 /\ pl.taker_amount <= 2}

\* submissions served concurrently against a resting order that is filled in
\* three parts
NextDeep ==
    \E p \in Procs : SubmitStepsOf(p, DeepPayloads, MaxDeepOrders, Makers, {TRUE})

SpecDeep == Init /\ [][NextDeep]_vars

\* two markets, each with its own position token, unit amounts
BatchPayloads ==
    LET first == OrderCreateOf({"c1"}, {1}, {DEFAULT_FEE_RATE_BPS})
    IN first \cup {[pl EXCEPT !.condition_id = "c2", !.token_id = 2] : pl \in first}

\* submissions in two markets and the settlement tasks
NextBatch ==
    \E p \in Procs :
        \/ SubmitStepsOf(p, BatchPayloads, MaxDeepOrders, Makers, {TRUE})
        \/ SettleSteps(p)

SpecBatch == Init /\ [][NextBatch]_vars

\* submissions served one at a time against the three-token seller, and the
\* settlement tasks run concurrently
NextPipeline ==
    \/ SubmitStepsOf("w1", DeepPayloads, MaxBookOrders, Makers, {TRUE})
    \/ \E p \in Procs : SettleSteps(p)

SpecPipeline == Init /\ [][NextPipeline]_vars

\* one worker serves the submissions against the three-token seller while
\* the other serves the cancellations
NextCancelDeep ==
    \/ SubmitStepsOf("w1", DeepPayloads, MaxBookOrders, Makers, {TRUE})
    \/ CancelSteps("w2")

SpecCancelDeep == Init /\ [][NextCancelDeep]_vars

\* the steps of the settle_fills task as the task worker runs it: one run
\* for each message that waits in the broker
SettleTaskSteps(p) ==
    \/ SettleFillsRead(p, TRUE)
    \/ \E ok \in BOOLEAN : SettleCall(p, ok)
    \/ SettleCommit(p)

\* one worker serves the submissions, whose settle_fills.delay() may or may
\* not reach the broker; the other is the task worker.  No schedule starts
\* settle_fills (tasks/celery_app.py and tasks/settlement_tasks.py set none)
NextSignalled ==
    \/ SubmitStepsVia("w1", OrderCreate, MaxBookOrders, Makers, {TRUE}, BOOLEAN)
    \/ SettleTaskSteps("w2")

\* a request that was accepted runs on to its commit or fails, and the task
\* worker takes every message that waits and finishes every run
FairSignalled ==
    /\ WF_vars(SubmitReject("w1"))
    /\ WF_vars(SubmitInsert("w1"))
    /\ WF_vars(SubmitMatch("w1"))
    /\ WF_vars(\E delivered \in BOOLEAN : SubmitCommit("w1", delivered))
    /\ WF_vars(SettleFillsRead("w2", TRUE))
    /\ WF_vars(\E ok \in BOOLEAN : SettleCall("w2", ok))
    /\ WF_vars(SettleCommit("w2"))

SpecSignalled == Init /\ [][NextSignalled]_vars /\ FairSignalled

\* request bodies that never expire or expire at timestamp 1
ExpiringPayloads == Expiring(OrderCreate, {NO_EXPIRY, 1})

\* submissions served one at a time while time passes; nothing else writes
\* orders.status (no task or handler assigns OrderStatus.EXPIRED)
NextExpiry ==
    \/ SubmitStepsOf("w1", ExpiringPayloads, MaxBookOrders, Makers, {TRUE})
    \/ Tick

\* a request that was accepted runs on to its commit or fails, and time passes
FairExpiry ==
    /\ WF_vars(SubmitReject("w1"))
    /\ WF_vars(SubmitInsert("w1"))
    /\ WF_vars(SubmitMatch("w1"))
    /\ WF_vars(SubmitCommit("w1", FALSE))
    /\ WF_vars(Tick)

SpecExpiry == Init /\ [][NextExpiry]_vars /\ FairExpiry

\* the depths a snapshot is asked with
Depths == {1, 2, DEFAULT_DEPTH}

\* the tokens a snapshot is asked for: the traded one and one without orders
SnapshotTokens == Tokens \cup {2}

\* the steps of the order-book request
OrderbookSteps(p) ==
    \/ \E condition_id \in Conditions, token_id \in SnapshotTokens, depth \in Depths :
           OrderbookRead(p, condition_id, token_id, depth)
    \/ OrderbookReturn(p)

\* (side, maker_amount, taker_amount) of the orders of the snapshot
\* specification: bids at 0.333333 (one of them 333333/1000000, below 1/3),
\* 0.5 (twice) and asks at 0.25, 0.666667 and 1
SnapshotBook ==
    {<<"BUY", 1, 3>>, <<"BUY", 333333, 1000000>>, <<"BUY", 1, 2>>, <<"BUY", 2, 4>>,
     <<"SELL", 4, 1>>, <<"SELL", 3, 2>>, <<"SELL", 1, 1>>}

SnapshotPayloads ==
    {pl \in OrderCreateOf(Conditions, {1, 2, 3, 4, 333333, 1000000}, {DEFAULT_FEE_RATE_BPS}) :
        <<pl.side, pl.maker_amount, pl.taker_amount>> \in SnapshotBook}

\* one worker serves the submissions while the other serves the order-book
\* requests
NextSnapshot ==
    \/ SubmitStepsOf("w1", SnapshotPayloads, MaxBookOrders, Makers, {TRUE})
    \/ OrderbookSteps("w2")

SpecSnapshot == Init /\ [][NextSnapshot]_vars

\* BTC/USD prices the oracle answers, in cents
BtcPrices == {10000, 10005}

\* the strike indexes whose on-chain call raises during one rotation
FailSets == {{}, {0}}

\* the rotation task runs any number of times while the minutes pass
NextRounds ==
    \/ Tick
    \/ \E price_ok \in BOOLEAN, btc_price \in BtcPrices, resolve_fail \in FailSets,
          create_fail \in FailSets :
           RotateBtcRound(price_ok, btc_price, resolve_fail, create_fail)

SpecRounds == Init /\ [][NextRounds]_vars

\* the request body of the n-th submission of the backlog: a SELL of one
\* token more than a batch holds, then buyers of one token each, at rising
\* prices
BacklogPayload(n) ==
    IF n = 1
    THEN [condition_id |-> "c1", token_id |-> 1, maker_address |-> "a1",
          maker_amount |-> SETTLE_BATCH_LIMIT + 1, taker_amount |-> SETTLE_BATCH_LIMIT + 1,
          side |-> "SELL", fee_rate_bps |-> DEFAULT_FEE_RATE_BPS, signer |-> ZeroAddress,
          expiration |-> NO_EXPIRY]
    ELSE [condition_id |-> "c1", token_id |-> 1, maker_address |-> "a1",
          maker_amount |-> n - 1, taker_amount |-> 1,
          side |-> "BUY", fee_rate_bps |-> DEFAULT_FEE_RATE_BPS, signer |-> ZeroAddress,
          expiration |-> NO_EXPIRY]

\* fills pile up while the task worker is away: the submissions are served
\* one at a time and no await of theirs raises, and settle_fills runs once
\* more fills are PENDING than a batch holds
NextBacklog ==
    \/ /\ nextOrderId <= SETTLE_BATCH_LIMIT + 2
       /\ \E recovered \in Addresses :
              SubmitVerify("w1", BacklogPayload(nextOrderId), recovered, TRUE)
    \/ SubmitReject("w1")
    \/ SubmitInsert("w1")
    \/ SubmitMatch("w1")
    \/ SubmitCommit("w1", FALSE)
    \/ /\ Cardinality(PendingFills) > SETTLE_BATCH_LIMIT
       /\ SettleFillsRead("w2", FALSE)
    \/ \E ok \in BOOLEAN : SettleCall("w2", ok)
    \/ SettleCommit("w2")

SpecBacklog == Init /\ [][NextBacklog]_vars

\* one worker serves the submissions against the three-token seller while
\* the other serves the cancellations and runs the settlement tasks
NextWriters ==
    \/ SubmitStepsOf("w1", DeepPayloads, MaxBookOrders, Makers, {TRUE})
    \/ CancelSteps("w2")
    \/ SettleSteps("w2")

SpecWriters == Init /\ [][NextWriters]_vars

\* match_new_order as a function of the rows the query hands it: the books
\* of MaxScanOrders resting SELL rows of different amounts, each filled to
\* any degree - also to its whole capacity while its status still reads
\* PARTIAL, the row of a fill "not yet reflected" that line 170 provides for
ScanShapes ==
    {sh \in [maker_amount : 1 .. 2, taker_amount : 1 .. 2, filled_amount : 0 .. 2] :
        sh.filled_amount <= sh.maker_amount}

ScanRow(id, sh) ==
    LET payload == [condition_id |-> "c1", token_id |-> 1, maker_address |-> "a1",
                    maker_amount |-> sh.maker_amount, taker_amount |-> sh.taker_amount,
                    side |-> "SELL", fee_rate_bps |-> DEFAULT_FEE_RATE_BPS,
                    signer |-> ZeroAddress, expiration |-> NO_EXPIRY]
    IN [NewOrderRow(payload, id, OrderHash(payload, TRUE)) EXCEPT
          !.filled_amount = sh.filled_amount,
          !.status = IF sh.filled_amount = 0 THEN OPEN ELSE PARTIAL]

ScanBooks ==
    {[id \in 1 .. MaxScanOrders |-> ScanRow(id, shapes[id])] :
        shapes \in {f \in [1 .. MaxScanOrders -> ScanShapes] :
                       \A i, j \in 1 .. MaxScanOrders :
                          (/\ f[i].maker_amount = f[j].maker_amount
                           /\ f[i].taker_amount = f[j].taker_amount) => i = j}}

InitScan ==
    /\ orders \in ScanBooks
    /\ fills = [id \in {} |-> Null]
    /\ nextOrderId = MaxScanOrders + 1
    /\ nextFillId = 1
    /\ nextTx = 1
    /\ pc = [p \in Procs |-> "idle"]
    /\ req = [p \in Procs |-> Null]
    /\ loc = [p \in Procs |-> Null]
    /\ signals = 0
    /\ now = 0
    /\ rounds = <<>>
    /\ markets = <<>>

\* one submission is served against the book
NextScan == SubmitSteps("w1", MaxScanOrders + 1, Addresses, {TRUE})

SpecScan == InitScan /\ [][NextScan]_vars

\* request bodies whose amounts may be "0": validate_uint256_string accepts
\* every non-negative integer string
ZeroPayloads == OrderCreateOf(Conditions, 0 .. 1, {DEFAULT_FEE_RATE_BPS})

\* submissions served one at a time, amounts of zero among them
NextZero == SubmitStepsOf("w1", ZeroPayloads, MaxOrders, Addresses, {TRUE})

SpecZero == Init /\ [][NextZero]_vars

\* ------------------------------------------------------------------------
\* Properties
\* ------------------------------------------------------------------------
RECURSIVE SumTokens(_)
\* sum of token_amount over a set of fill ids
SumTokens(S) ==
    IF S = {} THEN 0
    ELSE LET f == CHOOSE x \in S : TRUE
         IN fills[f].token_amount + SumTokens(S \ {f})

FillsAsMaker(id) == {f \in DOMAIN fills : fills[f].maker_order_id = id}

NewFills == DOMAIN fills' \ DOMAIN fills

SubmitPcs == {"insert", "match", "apply"}

\* C1: no double-fill - the fills that name an order as maker never add up
\* to more than the order's capacity (maker_amount for SELL, taker_amount
\* for BUY), however submissions crossing the same resting order interleave.
C1_NoDoubleFill ==
    \A id \in DOMAIN orders : SumTokens(FillsAsMaker(id)) <= Capacity(orders[id])

\* C2: once an order's committed status is CANCELLED, no step creates a
\* Fill that references it as maker or as taker.
C2_NoFillAfterCancel ==
    [][\A id \in DOMAIN orders :
          orders[id].status = CANCELLED =>
             \A f \in NewFills :
                fills'[f].maker_order_id # id /\ fills'[f].taker_order_id # id]_vars

\* the transitions an order's status may take
LegalStatusStep(old, new) ==
    \/ new = old
    \/ old = OPEN /\ new = PARTIAL
    \/ old \in {OPEN, PARTIAL} /\ new \in {FILLED, CANCELLED, EXPIRED}

\* C3: order status terminality - FILLED, CANCELLED and EXPIRED never change;
\* the only transitions are OPEN->PARTIAL and OPEN/PARTIAL->FILLED,
\* CANCELLED or EXPIRED.
C3_StatusTerminal ==
    [][\A id \in DOMAIN orders :
          LegalStatusStep(orders[id].status, orders'[id].status)]_vars

\* C4: a fill's status only progresses PENDING -> SETTLED or PENDING ->
\* FAILED; a SETTLED fill stays SETTLED and a FAILED fill stays FAILED.
C4_FillStatusProgress ==
    [][\A f \in DOMAIN fills :
          /\ fills[f].status = SETTLED => fills'[f].status = SETTLED
          /\ fills[f].status = FAILED => fills'[f].status = FAILED]_vars

\* everything SubmitCommit has to persist for p is in the tables after the step
AllLanded(p) ==
    LET o == loc[p].order
        ms == loc[p].matches
        total == SumSeq([i \in DOMAIN ms |-> ms[i].token_amount])
    IN /\ o.id \notin DOMAIN orders
       /\ o.id \in DOMAIN orders'
       /\ orders'[o.id].filled_amount = total
       /\ orders'[o.id].status =
             (IF ms = <<>> THEN OPEN
              ELSE IF ms[Len(ms)].taker_order_exhausted THEN FILLED ELSE PARTIAL)
       /\ Cardinality(NewFills) = Len(ms)
       /\ \A i \in DOMAIN ms :
             /\ \E f \in NewFills :
                   /\ fills'[f].maker_order_id = ms[i].maker_order_id
                   /\ fills'[f].taker_order_id = o.id
                   /\ fills'[f].token_amount = ms[i].token_amount
                   /\ fills'[f].collateral_amount = ms[i].collateral_amount
                   /\ fills'[f].fee = ms[i].fee
                   /\ fills'[f].status = PENDING
             /\ LET m == ms[i].maker_order_id
                    st == IF ms[i].maker_order_exhausted THEN FILLED ELSE PARTIAL
                IN /\ orders'[m].filled_amount =
                         loc[p].loaded[m].filled_amount + ms[i].token_amount
                   /\ st # loc[p].loaded[m].status => orders'[m].status = st

\* C5: submit_order is atomic - a step of a submission either leaves both
\* tables as they were, or is its commit and persists the new order, one
\* Fill per match and every update of the matched makers and of the taker.
C5_SubmitAtomic ==
    [][\A p \in Procs :
          (pc[p] \in SubmitPcs /\ pc'[p] # pc[p]) =>
             \/ UNCHANGED <<orders, fills>>
             \/ pc[p] = "apply" /\ AllLanded(p)]_vars

\* a submission with at least one match has committed
C5_Witness ==
    \E f \in DOMAIN fills :
        /\ fills[f].taker_order_id \in DOMAIN orders
        /\ orders[fills[f].taker_order_id].filled_amount > 0
        /\ orders[fills[f].maker_order_id].filled_amount > 0

\* C6: every order's filled_amount stays within its capacity, that is
\* remaining(order) >= 0.
C6_FilledWithinCapacity ==
    \A id \in DOMAIN orders :
        /\ orders[id].filled_amount <= Capacity(orders[id])
        /\ RemainingTokens(orders[id]) >= 0

\* a maker was filled to its capacity by a taker that wanted more
C6_Witness ==
    \E f \in DOMAIN fills :
        LET m == orders[fills[f].maker_order_id]
            t == orders[fills[f].taker_order_id]
        IN /\ m.filled_amount = Capacity(m)
           /\ t.filled_amount < Capacity(t)

\* C7: no step lowers the filled_amount of an order.
C7_FilledMonotonic ==
    [][\A id \in DOMAIN orders :
          orders'[id].filled_amount >= orders[id].filled_amount]_vars

\* the request fields an order row was created from
PayloadOf(o) ==
    [condition_id |-> o.condition_id, token_id |-> o.token_id,
     maker_address |-> o.maker_address, maker_amount |-> o.maker_amount,
     taker_amount |-> o.taker_amount, side |-> o.side,
     fee_rate_bps |-> o.fee_rate_bps, signer |-> o.signer]

\* C8: a payload that was submitted before is rejected as a duplicate: no
\* two order rows are created from the same payload.
C8_ResubmitRejected ==
    \A i, j \in DOMAIN orders :
        i # j => PayloadOf(orders[i]) # PayloadOf(orders[j])

\* C9: no two order rows have the same order_hash.
C9_UniqueOrderHash ==
    \A i, j \in DOMAIN orders :
        i # j => orders[i].order_hash # orders[j].order_hash

\* a submission passed the duplicate check, has not inserted yet, and a row
\* with its hash has been committed by a concurrent submission meanwhile
C9_Witness ==
    \E p \in Procs :
        /\ pc[p] = "insert"
        /\ \E id \in DOMAIN orders : orders[id].order_hash = loc[p].order_hash

\* C10: a submission whose signature check fails (recover_signer raises or
\* recovers another address) ends with the error and changes neither table:
\* only a request whose recovered signer is the expected one gets past the
\* check, and the rejected one returns without a write.
C10_BadSignatureNoPersist ==
    [][\A p \in Procs :
          /\ (pc[p] = "idle" /\ pc'[p] = "insert") =>
                (/\ req'[p].recovered # RAISES
                 /\ req'[p].recovered = ExpectedSigner(req'[p].payload))
          /\ ((pc[p] = "sig_invalid" \/ pc'[p] = "sig_invalid") /\ pc'[p] # pc[p]) =>
                (/\ pc'[p] \in {"sig_invalid", "idle"}
                 /\ UNCHANGED <<orders, fills, nextOrderId, nextFillId>>)]_vars

\* a request was rejected for its signature while orders rest in the book
C10_Witness ==
    /\ DOMAIN orders # {}
    /\ \E p \in Procs : pc[p] = "sig_invalid"

\* ------------------------------------------------------------------------
\* Properties of match_new_order, stated on the step that calls it: the book
\* is `orders`, the incoming order loc[p].order, the result loc'[p].matches
\* ------------------------------------------------------------------------
\* the exact price of an order as the fraction <<collateral, tokens>>
ExactPrice(o) ==
    IF o.side = "BUY" THEN <<o.maker_amount, o.taker_amount>>
    ELSE <<o.taker_amount, o.maker_amount>>

RatLess(x, y) == x[1] * y[2] < y[1] * x[2]
RatEqual(x, y) == x[1] * y[2] = y[1] * x[2]

\* resting order a has a strictly better price than resting order b
BetterPrice(a, b) ==
    IF a.side = "SELL" THEN RatLess(ExactPrice(a), ExactPrice(b))
    ELSE RatLess(ExactPrice(b), ExactPrice(a))

\* the resting order crosses the incoming one
Crosses(new_order, resting) ==
    IF new_order.side = "BUY" THEN ~RatLess(ExactPrice(new_order), ExactPrice(resting))
    ELSE ~RatLess(ExactPrice(resting), ExactPrice(new_order))

\* p's step is the call of match_new_order returning a list
MatchStep(p) == pc[p] = "match" /\ pc'[p] = "apply"

\* resting order b is filled completely by a result before position i
FilledBefore(ms, i, b) ==
    \E j \in 1 .. (i - 1) :
        /\ ms[j].maker_order_id = b
        /\ ms[j].token_amount = RemainingTokens(orders[b])

C12_TimePriority ==
    [][\A p \in Procs :
          MatchStep(p) =>
             LET new_order == loc[p].order
                 ms == loc'[p].matches
             IN \A i \in DOMAIN ms :
                   /\ \A b \in RestingQuery(orders, new_order) :
                         (/\ RatEqual(ExactPrice(orders[b]),
                                      ExactPrice(orders[ms[i].maker_order_id]))
                          /\ b < ms[i].maker_order_id
                          /\ RemainingTokens(orders[b]) > 0)
                         => FilledBefore(ms, i, b)
                   /\ ms[i].taker_order_exhausted => i = Len(ms)]_vars

\* a taker was exhausted by the older of two equal-priced resting orders that
\* both had tokens left
C12_Witness ==
    \E p \in Procs :
        /\ pc[p] = "apply"
        /\ Len(loc[p].matches) = 1
        /\ loc[p].matches[1].taker_order_exhausted
        /\ \E b \in RestingQuery(orders, loc[p].order) :
              /\ b > loc[p].matches[1].maker_order_id
              /\ RemainingTokens(orders[b]) > 0
              /\ RatEqual(ExactPrice(orders[b]),
                          ExactPrice(orders[loc[p].matches[1].maker_order_id]))

C14_CollateralExactFloor ==
    [][\A p \in Procs :
          MatchStep(p) =>
             \A i \in DOMAIN loc'[p].matches :
                LET r == loc'[p].matches[i]
                    price == ExactPrice(orders[r.maker_order_id])
                IN /\ r.collateral_amount = (r.token_amount * price[1]) \div price[2]
                   /\ r.collateral_amount * price[2] <= r.token_amount * price[1]]_vars

\* the fee rate an order row carries
FeeRateOf(id) == orders'[id].fee_rate_bps

\* C15: every fill created by submit_order has fee = floor(collateral_amount
\* x fee_rate_bps / 10000) for the fee rate carried by the order (the maker's
\* or the taker's row), and fee <= collateral_amount.
C15_FeeFromOrderRate ==
    [][\A f \in NewFills :
          /\ \/ fills'[f].fee =
                   (fills'[f].collateral_amount * FeeRateOf(fills'[f].maker_order_id))
                      \div 10000
             \/ fills'[f].fee =
                   (fills'[f].collateral_amount * FeeRateOf(fills'[f].taker_order_id))
                      \div 10000
          /\ fills'[f].fee <= fills'[f].collateral_amount]_vars

TakerRemainingAt(new_order, ms, i) ==
    RemainingTokens(new_order) - SumSeq([j \in 1 .. (i - 1) |-> ms[j].token_amount])

\* C17: exhaustion correctness - every result has token_amount =
\* min(taker_remaining, maker_remaining) at the moment it is generated, each
\* exhaustion flag is true exactly when token_amount equals that side's
\* remaining, and a taker that is not exhausted goes on to the next
\* candidate with taker_remaining reduced by token_amount: the list ends
\* only when the taker is exhausted or no crossing candidate with tokens is left.
C17_Exhaustion ==
    [][\A p \in Procs :
          MatchStep(p) =>
             LET new_order == loc[p].order
                 ms == loc'[p].matches
                 used == {ms[i].maker_order_id : i \in DOMAIN ms}
             IN /\ \A i \in DOMAIN ms :
                      LET taker_remaining == TakerRemainingAt(new_order, ms, i)
                          maker_remaining == RemainingTokens(orders[ms[i].maker_order_id])
                      IN /\ ms[i].token_amount = Min(taker_remaining, maker_remaining)
                         /\ ms[i].maker_order_exhausted <=> (ms[i].token_amount = maker_remaining)
                         /\ ms[i].taker_order_exhausted <=> (ms[i].token_amount = taker_remaining)
                /\ TakerRemainingAt(new_order, ms, Len(ms) + 1) > 0 =>
                      \A b \in RestingQuery(orders, new_order) \ used :
                         ~Crosses(new_order, orders[b]) \/ RemainingTokens(orders[b]) <= 0]_vars

\* a taker exhausted one maker without being exhausted and went on to the next
C17_Witness ==
    \E p \in Procs :
        /\ pc[p] = "apply"
        /\ Len(loc[p].matches) = 2
        /\ loc[p].matches[1].maker_order_exhausted
        /\ ~loc[p].matches[1].taker_order_exhausted
        /\ loc[p].matches[2].token_amount > 0

\* C18: status is a function of filled_amount - every order that is not
\* CANCELLED or EXPIRED is OPEN exactly when filled_amount = 0, PARTIAL
\* exactly when 0 < filled_amount < capacity, and FILLED exactly when
\* filled_amount = capacity.
C18_StatusOfFilled ==
    \A id \in DOMAIN orders :
        LET o == orders[id]
        IN o.status \notin {CANCELLED, EXPIRED} =>
              /\ o.status = OPEN <=> o.filled_amount = 0
              /\ o.status = PARTIAL <=> (0 < o.filled_amount /\ o.filled_amount < Capacity(o))
              /\ o.status = FILLED <=> o.filled_amount = Capacity(o)

\* p's step is the commit that ends a run of the settlement job
SettleRunCommits(p) ==
    pc[p] = "settle_call" /\ pc'[p] = "idle" /\ req[p].op = "settle_fills"

\* C19: batch-or-nothing settlement - when a run of the settlement job that
\* selected a set of PENDING fills commits, either all of them are SETTLED
\* with one identical transaction reference or all of them are FAILED, and
\* none of them is PENDING.
C19_BatchOrNothing ==
    [][\A p \in Procs :
          SettleRunCommits(p) =>
             LET S == loc[p].selected
             IN /\ \A f \in S : fills'[f].status # PENDING
                /\ \/ \A f, g \in S :
                         /\ fills'[f].status = SETTLED
                         /\ fills'[f].tx_hash = fills'[g].tx_hash
                   \/ \A f \in S : fills'[f].status = FAILED]_vars

\* C20: a fill carries a transaction reference only if it is SETTLED;
\* PENDING and FAILED fills never do, also after concurrent settlement runs
\* over the same fill.
C20_TxHashOnlyOnSettled ==
    \A f \in DOMAIN fills :
        fills[f].tx_hash # 0 => fills[f].status = SETTLED

\* p's step starts a settlement run that has fills to settle
SettleRunStarts(p) == pc[p] = "idle" /\ pc'[p] = "settle_call"

\* p's step is a call of the chain executor (or the skip of an empty group)
SettleCalls(p) == pc[p] = "settle_call" /\ pc'[p] = "settle_call" /\ loc'[p] # loc[p]

CancelReads(p) == pc[p] = "idle" /\ req'[p].op = "cancel"

\* p's step leaves the stage st of its cancel_order request
CancelLeaves(p, st) == pc[p] = st /\ pc'[p] # st

\* the tables are as they were
TablesUnchanged == orders' = orders /\ fills' = fills

\* C24: cancel_order with a maker address other than the order's (or with an
\* unknown order id) ends in the "Order not found" error and changes no Order
\* or Fill row; an order becomes CANCELLED only by the commit of a request of
\* its own maker.
C24_CancelOnlyByMaker ==
    [][/\ \A p \in Procs :
            /\ ( /\ CancelReads(p)
                 /\ \/ req'[p].order_id \notin DOMAIN orders
                    \/ orders[req'[p].order_id].maker_address # req'[p].maker_address )
               => pc'[p] = "cancel_not_found" /\ TablesUnchanged
            /\ CancelLeaves(p, "cancel_not_found")
               => pc'[p] = "idle" /\ TablesUnchanged
       /\ \A id \in DOMAIN orders :
            orders[id].status # CANCELLED /\ orders'[id].status = CANCELLED
            => \E p \in Procs :
                  /\ CancelLeaves(p, "cancel_commit")
                  /\ req[p].order_id = id
                  /\ req[p].maker_address = orders[id].maker_address]_vars

\* another address asked to cancel a resting order and is being refused
C24_Witness ==
    \E p \in Procs :
        /\ pc[p] = "cancel_not_found"
        /\ req[p].order_id \in DOMAIN orders
        /\ orders[req[p].order_id].maker_address # req[p].maker_address
        /\ orders[req[p].order_id].status \in {OPEN, PARTIAL}

\* C25: cancel_order on an order that is FILLED, CANCELLED or EXPIRED is
\* refused and leaves every row as it was; a second cancellation of an order
\* therefore leaves the state of the first.
C25_CancelTerminalRejected ==
    [][\A p \in Procs :
          /\ ( /\ CancelReads(p)
               /\ req'[p].order_id \in DOMAIN orders
               /\ orders[req'[p].order_id].maker_address = req'[p].maker_address
               /\ orders[req'[p].order_id].status \in {FILLED, CANCELLED, EXPIRED} )
             => pc'[p] = "cancel_rejected" /\ TablesUnchanged
          /\ CancelLeaves(p, "cancel_rejected")
             => pc'[p] = "idle" /\ TablesUnchanged]_vars

\* the maker asks to cancel an order that is cancelled already
C25_Witness ==
    \E p \in Procs :
        /\ pc[p] = "cancel_rejected"
        /\ orders[req[p].order_id].status = CANCELLED
        /\ orders[req[p].order_id].maker_address = req[p].maker_address

\* C26: whatever the on-chain cancellation call does, the step after the
\* commit writes no row (a failure does not undo the cancellation) and
\* cancel_order returns the order it refreshed, not an error.
C26_ChainFailureKeepsCancel ==
    [][\A p \in Procs :
          /\ CancelLeaves(p, "cancel_chain")
             => /\ pc'[p] = "cancel_done"
                /\ loc'[p].order = loc[p].order
                /\ loc'[p].order.id = req[p].order_id
                /\ TablesUnchanged
          /\ CancelLeaves(p, "cancel_done")
             => pc'[p] = "idle" /\ TablesUnchanged]_vars

\* the on-chain call failed and the order is returned, persisted as CANCELLED
C26_Witness ==
    \E p \in Procs :
        /\ pc[p] = "cancel_done"
        /\ ~loc[p].onchain
        /\ loc[p].order.status = CANCELLED
        /\ orders[req[p].order_id].status = CANCELLED

\* the request of p found its order PARTIAL with something filled
CancelsPartial(p) ==
    /\ req[p].op = "cancel"
    /\ pc[p] \in {"cancel_commit", "cancel_chain", "cancel_done"}
    /\ LET found == IF pc[p] = "cancel_commit" THEN loc[p].order ELSE loc[p].loaded
       IN  found.status = PARTIAL /\ found.filled_amount > 0

\* C27: cancel_order on a PARTIAL order with filled_amount > 0 changes only
\* that order's status - its filled_amount, every other Order row and every
\* Fill row are unchanged by each step of the request.
C27_CancelPartialOnlyStatus ==
    [][\A p \in Procs :
          CancelsPartial(p) /\ pc'[p] # pc[p]
          => /\ fills' = fills
             /\ orders' = IF pc[p] = "cancel_commit"
                          THEN [orders EXCEPT ![req[p].order_id].status = CANCELLED]
                          ELSE orders]_vars

\* a partially filled order was cancelled and keeps what was filled
C27_Witness ==
    \E p \in Procs :
        /\ CancelsPartial(p)
        /\ pc[p] = "cancel_chain"
        /\ orders[req[p].order_id].status = CANCELLED
        /\ orders[req[p].order_id].filled_amount = loc[p].loaded.filled_amount

\* C22: liveness of settlement - every fill created PENDING by a committed
\* submit_order is eventually SETTLED or FAILED, also when the post-commit
\* signal is lost.
C22_SettlementLiveness ==
    \A f \in 1 .. MaxBookOrders :
        (f \in DOMAIN fills /\ fills[f].status = PENDING)
            ~> (f \in DOMAIN fills /\ fills[f].status \in {SETTLED, FAILED})

\* the order's expiration timestamp is set and has passed
HasExpired(order) == order.expiration # NO_EXPIRY /\ order.expiration < now

\* C23: every OPEN or PARTIAL order whose non-zero expiration timestamp has
\* passed is eventually marked EXPIRED.
C23_ExpiredSwept ==
    \A id \in 1 .. MaxBookOrders :
        ( /\ id \in DOMAIN orders
          /\ orders[id].status \in {OPEN, PARTIAL}
          /\ HasExpired(orders[id]) )
            ~> (id \in DOMAIN orders /\ orders[id].status = EXPIRED)

\* p's step builds an order-book snapshot
SnapshotTaken(p) == pc[p] = "idle" /\ pc'[p] = "book_done"

\* the OPEN/PARTIAL orders of one side of the market and token p asks for
RestingSide(p, side) ==
    {id \in DOMAIN orders :
        /\ orders[id].condition_id = req'[p].condition_id
        /\ orders[id].token_id = req'[p].token_id
        /\ orders[id].side = side
        /\ orders[id].status \in {OPEN, PARTIAL}}

RECURSIVE SumRemaining(_)
\* the remaining quantities of a set of orders, added up
SumRemaining(S) ==
    IF S = {} THEN 0
    ELSE LET id == CHOOSE x \in S : TRUE
         IN RemainingTokens(orders[id]) + SumRemaining(S \ {id})

\* the listed levels of one side aggregate the resting orders of that side
Aggregated(p, side, levels) ==
    /\ \A i, j \in DOMAIN levels : i # j => levels[i].price # levels[j].price
    /\ \A i \in DOMAIN levels :
          LET same == {id \in RestingSide(p, side) :
                          LevelPrice(orders[id]) = levels[i].price}
          IN  /\ levels[i].order_count = Cardinality(same)
              /\ levels[i].size = SumRemaining(same)
    /\ Len(levels) < req'[p].depth =>
          \A id \in RestingSide(p, side) :
              \E i \in DOMAIN levels : levels[i].price = LevelPrice(orders[id])

\* C28: in a snapshot, the resting (OPEN/PARTIAL) orders of one side with the
\* same quantized price are one price level, whose order_count is their
\* number and whose size is the sum of their remaining quantities.
C28_LevelsAggregate ==
    [][\A p \in Procs :
          SnapshotTaken(p) =>
             /\ Aggregated(p, "BUY", loc'[p].snapshot.bids)
             /\ Aggregated(p, "SELL", loc'[p].snapshot.asks)]_vars

\* a snapshot lists a level of two orders, one of them partly filled or not
\* priced exactly at the level
C28_Witness ==
    \E p \in Procs :
        /\ pc[p] = "book_done"
        /\ \E i \in DOMAIN loc[p].snapshot.bids :
              /\ loc[p].snapshot.bids[i].order_count = 2
              /\ loc[p].snapshot.bids[i].size > 2

\* the levels of one side are strictly ordered, at most depth, and the best
\* of the side: better is the higher price for bids, the lower for asks
BestLevels(p, side, levels) ==
    LET Better(q, r) == IF side = "BUY" THEN q > r ELSE q < r
    IN  /\ \A i, j \in DOMAIN levels :
              i < j => Better(levels[i].price, levels[j].price)
        /\ Len(levels) <= req'[p].depth
        /\ \A id \in RestingSide(p, side) :
              \/ RemainingTokens(orders[id]) <= 0
              \/ \E i \in DOMAIN levels : levels[i].price = LevelPrice(orders[id])
              \/ /\ Len(levels) = req'[p].depth
                 /\ \A i \in DOMAIN levels :
                       Better(levels[i].price, LevelPrice(orders[id]))

\* C29: in every snapshot the bids are in strictly descending and the asks in
\* strictly ascending price order, each list has at most depth entries, and
\* no omitted level has a better price than a listed one.
C29_SortedBestLevels ==
    [][\A p \in Procs :
          SnapshotTaken(p) =>
             /\ BestLevels(p, "BUY", loc'[p].snapshot.bids)
             /\ BestLevels(p, "SELL", loc'[p].snapshot.asks)]_vars

\* a snapshot of depth 2 of a book with three ask levels
C29_Witness ==
    \E p \in Procs :
        /\ pc[p] = "book_done"
        /\ req[p].depth = 2
        /\ Len(loc[p].snapshot.asks) = 2
        /\ loc[p].snapshot.asks[1].price < loc[p].snapshot.asks[2].price
        /\ \E id \in DOMAIN orders :
              /\ orders[id].side = "SELL"
              /\ orders[id].status = OPEN
              /\ orders[id].token_id = req[p].token_id
              /\ LevelPrice(orders[id]) > loc[p].snapshot.asks[2].price

\* the mid price is there exactly when both lists have an entry, and is None
\* otherwise
MidPresence(snapshot) ==
    IF snapshot.bids # <<>> /\ snapshot.asks # <<>>
    THEN Len(snapshot.mid_price) = 1
    ELSE snapshot.mid_price = None

HalfEven(sum) ==
    IF sum % 2 = 0 THEN sum \div 2
    ELSE IF (sum \div 2) % 2 = 0 THEN sum \div 2 ELSE sum \div 2 + 1

MarketsOf(r) == {m \in DOMAIN markets : markets[m].btc_round_id = r}

\* C31: a rotation invoked when the round of the current minute exists
\* creates no second round for that round_start and leaves that round and
\* its markets unchanged (still ACTIVE, not resolved).
C31_RotationIdempotent ==
    [][\A r \in DOMAIN rounds :
          (rounds[r].round_start = now /\ now' = now)
          => /\ \A q \in DOMAIN rounds' : rounds'[q].round_start = now => q = r
             /\ rounds'[r] = rounds[r]
             /\ \A m \in MarketsOf(r) : markets'[m] = markets[m]
             /\ \A m \in DOMAIN markets' : markets'[m].btc_round_id = r => m \in MarketsOf(r)]_vars

\* C32: each settlement run selects at most SETTLE_BATCH_LIMIT PENDING fills,
\* oldest first - no PENDING fill is in the batch while an older PENDING fill
\* is left out of it.
C32_BatchOldestFirst ==
    [][\A p \in Procs :
          SettleRunStarts(p) =>
             /\ Cardinality(loc'[p].selected) <= SETTLE_BATCH_LIMIT
             /\ \A f \in loc'[p].selected : fills[f].status = PENDING
             /\ \A f \in loc'[p].selected, g \in PendingFills :
                   g < f => g \in loc'[p].selected]_vars

\* C33: no database transaction is open while the chain-execution call is in
\* flight - the transaction of the reads that build the batch is closed
\* before the call (the SETTLED/FAILED marks go in a transaction begun after
\* the call returned).
C33_NoTransactionAcrossCall ==
    [][\A p \in Procs :
          SettleCalls(p) => ~SettleTransactionOpen(p)]_vars

\* the step is one of p's
StepOf(p) == pc'[p] # pc[p] \/ loc'[p] # loc[p]

\* the step belongs to a run of settle_fills or settle_fill_by_id by p
SettleStepOf(p) ==
    StepOf(p) /\ (pc[p] = "settle_call" \/ pc'[p] = "settle_call")

\* the step belongs to a call of submit_order or cancel_order by p
LifecycleStepOf(p) == StepOf(p) /\ ~SettleStepOf(p)

\* C34: writer discipline - a step of a settlement run leaves every Order row
\* unchanged, and a step of submit_order or cancel_order leaves the status
\* and the transaction reference of every existing Fill row unchanged.
C34_WriterDiscipline ==
    [][\A p \in Procs :
          /\ SettleStepOf(p) => orders' = orders
          /\ LifecycleStepOf(p) =>
                \A f \in DOMAIN fills :
                    /\ f \in DOMAIN fills'
                    /\ fills'[f].status = fills[f].status
                    /\ fills'[f].tx_hash = fills[f].tx_hash]_vars

\* a fill was settled, a later fill was created and is still PENDING, and an
\* order was cancelled: all three writers have written
C34_Witness ==
    /\ \E f, g \in DOMAIN fills :
          f < g /\ fills[f].status = SETTLED /\ fills[f].tx_hash > 0
                /\ fills[g].status = PENDING
    /\ \E id \in DOMAIN orders : orders[id].status = CANCELLED
    /\ \E id \in DOMAIN orders : orders[id].status = PARTIAL

\* the orders in which a store may return the rows S
RowOrders(S) ==
    {rows \in [1 .. Cardinality(S) -> S] : \A i, j \in DOMAIN rows : rows[i] = rows[j] => i = j}

\* C35: matching is deterministic - whatever the order in which the store
\* returns the resting rows, match_new_order on the same incoming order and
\* the same resting orders produces the list of match results submit_order
\* got, in the same order.
C35_MatchingDeterministic ==
    \A p \in Procs :
        pc[p] = "apply" =>
            \A rows \in RowOrders(RestingQuery(orders, loc[p].order)) :
                MatchRows(orders, loc[p].order, rows) = loc[p].matches

\* a taker was matched while two resting orders of one price crossed it
C35_Witness ==
    \E p \in Procs :
        /\ pc[p] = "apply"
        /\ loc[p].matches # <<>>
        /\ \E a, b \in RestingQuery(orders, loc[p].order) :
              /\ a # b
              /\ ~KeyLess(TRUE, [orders[a] EXCEPT !.id = 0], [orders[b] EXCEPT !.id = 0])
              /\ ~KeyLess(TRUE, [orders[b] EXCEPT !.id = 0], [orders[a] EXCEPT !.id = 0])
              /\ loc[p].order.side = "BUY"
              /\ ~NoCross(TRUE, BuyPrice(loc[p].order), SellPrice(orders[a]))

\* the resting rows the taker of p's request was matched against, in
\* priority order
Candidates(p) ==
    SortResting(orders, RestingQuery(orders, loc[p].order), loc[p].order.side = "BUY")

\* the candidate at position i crosses the taker of p's request
CandidateCrosses(p, i) == Crosses(loc[p].order, orders[Candidates(p)[i]])

RECURSIVE TakenBefore(_, _)
\* what the crossing candidates ahead of position i have left, together
TakenBefore(p, i) ==
    IF i <= 1 THEN 0
    ELSE TakenBefore(p, i - 1)
         + (IF CandidateCrosses(p, i - 1) /\ RemainingTokens(orders[Candidates(p)[i - 1]]) > 0
            THEN RemainingTokens(orders[Candidates(p)[i - 1]]) ELSE 0)

\* the match list of p's request holds a result for the order id
MatchedWith(p, id) == \E k \in DOMAIN loc[p].matches : loc[p].matches[k].maker_order_id = id

\* C36: a crossing candidate with remaining <= 0 produces no match result
\* and does not end the scan - every candidate that crosses, has remaining > 0
\* and is reached while the taker has quantity left is matched.
C36_ExhaustedCandidateSkipped ==
    \A p \in Procs :
        pc[p] = "apply" =>
            \A i \in DOMAIN Candidates(p) :
                LET maker_order == orders[Candidates(p)[i]]
                IN /\ RemainingTokens(maker_order) <= 0 => ~MatchedWith(p, maker_order.id)
                   /\ (/\ CandidateCrosses(p, i)
                       /\ RemainingTokens(maker_order) > 0
                       /\ TakenBefore(p, i) < RemainingTokens(loc[p].order))
                      => MatchedWith(p, maker_order.id)

\* a crossing candidate with nothing remaining stood ahead of one that was
\* matched
C36_Witness ==
    \E p \in Procs :
        /\ pc[p] = "apply"
        /\ \E i, j \in DOMAIN Candidates(p) :
              /\ i < j
              /\ CandidateCrosses(p, i)
              /\ RemainingTokens(orders[Candidates(p)[i]]) <= 0
              /\ MatchedWith(p, Candidates(p)[j])

\* the fills p's step passes to the chain executor
FillsPassed(p) == Range(PreparedFillIds(Head(loc[p].groups).fill_ids))

\* C37: each fill is passed to the chain executor at most once - when a step
\* passes a fill, the fill is still PENDING in the table (no committed run
\* passed it) and no other run holds a mark for it (no run in flight passed
\* it).
C37_PassedAtMostOnce ==
    [][\A p \in Procs :
          SettleCalls(p) =>
             \A f \in FillsPassed(p) :
                 /\ fills[f].status = PENDING
                 /\ \A q \in Procs \ {p} :
                       pc[q] = "settle_call" => f \notin DOMAIN loc[q].staged]_vars

\* the Fill rows that reference the order as maker or as taker
FillsOf(id) ==
    {f \in DOMAIN fills : fills[f].maker_order_id = id \/ fills[f].taker_order_id = id}

\* C38: fill conservation - for every order, filled_amount equals the sum of
\* token_amount over the Fill rows that reference it as maker or as taker.
C38_FillConservation ==
    \A id \in DOMAIN orders : orders[id].filled_amount = SumTokens(FillsOf(id))

\* the order rests on the book: OPEN or PARTIAL with quantity remaining
Resting(o) == o.status \in {OPEN, PARTIAL} /\ RemainingTokens(o) > 0

\* C39: uncrossed book - in the committed table no resting BUY order of a
\* market and token has an exact price greater than or equal to that of a
\* resting SELL order of the same market and token.
C39_UncrossedBook ==
    \A b, a \in DOMAIN orders :
        (/\ orders[b].side = "BUY" /\ orders[a].side = "SELL"
         /\ orders[b].condition_id = orders[a].condition_id
         /\ orders[b].token_id = orders[a].token_id
         /\ Resting(orders[b]) /\ Resting(orders[a]))
        => RatLess(ExactPrice(orders[b]), ExactPrice(orders[a]))

\* C40: every order with status OPEN or PARTIAL has remaining quantity > 0
\* and non-zero maker_amount and taker_amount (no zero-capacity or
\* zero-denominator order is left resting, so the price of a resting order
\* can always be computed).
C40_RestingOrdersWellFormed ==
    \A id \in DOMAIN orders :
        orders[id].status \in {OPEN, PARTIAL} =>
            /\ RemainingTokens(orders[id]) > 0
            /\ orders[id].maker_amount # 0
            /\ orders[id].taker_amount # 0

====
